---- MODULE Spec2Model ----
(***************************************************************************)
(* Verification model of the juno backtest engine                          *)
(* (juno/src/trading/traders.rs) and the sub-policies it drives.           *)
(*                                                                         *)
(* Number representation.  The engine computes on f64.  The model computes *)
(* on exact rationals: every amount (quote, size, fee, price) is an        *)
(* integer count of 1/SCALE, every rate (fee rate, interest rate,          *)
(* threshold) an integer count of 1/RateDen.  Products and quotients are    *)
(* kept as numerator/denominator pairs until a rounding function of the    *)
(* code (round_down, round_half_up, Size::round_down) turns them into an   *)
(* amount again, so every rounding step of the code is a rounding step of  *)
(* the model.                                                              *)
(*                                                                         *)
(* Besides the engine (Spec) the module holds the parts of the crate that  *)
(* are used on their own, each with its variables and its specification:   *)
(* the price and size filters (FilterSpec), BufferedCandle (BufferSpec),   *)
(* timestamp alignment (TimeSpec), interval formatting and parsing         *)
(* (IntervalSpec), the handlers of POST /optimize (OptimizeSpec) and of    *)
(* POST /backtest (BacktestSpec) of juno_axum, the status check of the     *)
(* data-service client (ClientSpec), BasicEvaluation::evaluate             *)
(* (EvaluationSpec), the DM indicator (DMSpec), TraderParams as a          *)
(* chromosome (ChromosomeSpec) and the candle gathering of juno_axum       *)
(* (ExchangeSpec).  In each specification the variables of the other       *)
(* parts stay at their idle values.                                        *)
(***************************************************************************)
EXTENDS Integers, Sequences, FiniteSets, TLC

\* ------------------------------------------------------------------ bounds
MaxCandles == 3          \* longest candle series
MaxGap == 2              \* largest distance of two candles, in intervals
MaxSize == 25            \* largest price or size handed to a filter, in 1/SCALE
MaxFed == 4              \* most candles handed to a BufferedCandle
MaxStride == 3           \* largest distance of two of them, in intervals
MaxDays == 45            \* days of timestamps after FirstDay
MaxGenerations == 3      \* most generations of an evolution
MaxSymbols == 3          \* most symbols of a backtest request
MaxCtxs == 3             \* most symbol_ctxs of a BasicEvaluation

\* -------------------------------------------------------- representation
SCALE == 10              \* amounts are counted in 1/SCALE
RateDen == 10            \* rates are counted in 1/RateDen

\* ------------------------------------------------------------ input sets
Closes == {10, 20, 40}                       \* candle.close: 1.0, 2.0, 4.0
Quotes == {25}                               \* input.quote: 2.5
Intervals == {2}                             \* params.trader.interval (ms)
TakerRates == {1}                            \* fees.taker: 0.1
MarginMultipliers == {2}                     \* input.margin_multiplier
FilterSet == {[size |-> [min |-> 10, max |-> 0, step |-> 5],
               base_precision |-> 1, quote_precision |-> 1]}
BorrowInfos == {[interest_interval |-> 3, interest_rate |-> 1, limit |-> 100]}
Thresholds == {5}                            \* up/down threshold: 0.5
FirstTimes == {4}                            \* candles[0].time (ms)

Advice == {"None", "Long", "Short", "Liquidate"}
CloseReason == {"Strategy", "StopLoss", "TakeProfit", "Cancelled"}

None == [type |-> "None"]

VARIABLES
    params,        \* TradingParams: trader.interval, stop_loss, take_profit
    input,         \* TradeInput; of the candles their number and the
                   \* times of the first and the last one
    state,         \* State of traders.rs
    summary,       \* TradingSummary
    i,             \* number of candles taken from input.candles by the loop
    pc,            \* position in trade: "loop", "finish", "done"
    panicked,      \* a panic!() of a close path was executed
    trace,         \* what the last tick did (observation only)
    num_opened,    \* number of successful try_open_* calls (observation only)
    filter,        \* a Price or Size filter: min, max, step
    filter_arg,    \* the price or size handed to the filter
    rounded,       \* the last call on the filter and what it returned
    buffered,      \* a BufferedCandle
    fed,           \* the candles handed to buffered.buffer (observation only)
    emitted,       \* the candles it returned (observation only)
    buffer_panicked, \* a call of buffered.buffer panicked
    buffer_args,   \* the arguments of BufferedCandle::new (observation only)
    buffer_sources, \* the inputs held by buffer_candle and by each emitted
                   \* candle, as indices of fed (observation only)
    ts,            \* a Timestamp
    ts_interval,   \* the Interval it is aligned to
    aligned,       \* the last alignment call and what it returned
    iv,            \* an Interval
    iv_repr,       \* its string, once formatted
    iv_parsed,     \* what parsing that string returned
    args,          \* Params of POST /optimize: hall_of_fame_size, generations
    evolution,     \* evolution.generations: the hall of fame of each one
    best_fitnesses, \* best_fitnesses of post
    gen_stats,     \* the generations post has let through, in order
    filtered,      \* number of generations the filter of post has seen
    failure,       \* the error a `?` of post has met
    response,      \* the response of post, once it has returned
    backtest_args,      \* Params of POST /backtest: symbols
    symbol_summaries,   \* the backtest task of each symbol
    symbol_stats,       \* the get_stats task of each symbol, once created
    backtest_response,  \* the response of post, once it has returned
    upstream,      \* a Response of the data service: status, url, body
    surfaced,      \* what error_for_juno_status made of it
    evaluation,    \* a BasicEvaluation: symbol_ctxs, aggregation function
    population,    \* the population handed to evaluate
    tasks,         \* the closure run of each individual: symbols folded, acc
    dm,            \* a DM indicator
    dm_fed,        \* the (high, low) pairs handed to dm.update (observation only)
    dm_dir,        \* the last call of calc_direction and what it returned
    trader_ctx,    \* a TraderParamsContext: intervals
    trader_params, \* two TraderParams chromosomes, once generated
    chromosome_call, \* the last call on them and whether it panicked
    gather_keys,   \* symbols and intervals of gather_exchange_info_candles_prices
    gather_values, \* the candle lists handed to map_of_maps, once at hand
    gathered       \* what map_of_maps returned

engine_vars ==
    <<params, input, state, summary, i, pc, panicked, trace, num_opened>>
filter_vars == <<filter, filter_arg, rounded>>
buffer_vars ==
    <<buffered, fed, emitted, buffer_panicked, buffer_args, buffer_sources>>
time_vars == <<ts, ts_interval, aligned>>
interval_vars == <<iv, iv_repr, iv_parsed>>
optimize_vars ==
    <<args, evolution, best_fitnesses, gen_stats, filtered, failure, response>>
backtest_vars == <<backtest_args, symbol_summaries, symbol_stats, backtest_response>>
client_vars == <<upstream, surfaced>>
evaluation_vars == <<evaluation, population, tasks>>
dm_vars == <<dm, dm_fed, dm_dir>>
chromosome_vars == <<trader_ctx, trader_params, chromosome_call>>
exchange_vars == <<gather_keys, gather_values, gathered>>
unit_vars ==
    <<filter_vars, buffer_vars, time_vars, interval_vars, optimize_vars,
      backtest_vars, client_vars, evaluation_vars, dm_vars, chromosome_vars,
      exchange_vars>>
vars == <<engine_vars, unit_vars>>

\* ------------------------------------------------------------------- math
\* round_down(x, p) = floor(x * 10^p) / 10^p, x = num/den, result in 1/SCALE
round_down(num, den, precision) ==
    ((num * (10 ^ precision)) \div den) * (SCALE \div (10 ^ precision))

\* round_half_up(x, p) = floor(x * 10^p + 0.5) / 10^p
round_half_up(num, den, precision) ==
    ((2 * num * (10 ^ precision) + den) \div (2 * den)) * (SCALE \div (10 ^ precision))

\* smallest multiple of `multiple` that is >= value
ceil_multiple(value, multiple) ==
    ((value + multiple - 1) \div multiple) * multiple

Min(a, b) == IF a <= b THEN a ELSE b
Max(a, b) == IF a >= b THEN a ELSE b

\* largest multiple of `multiple` that is <= value
floor_multiple(value, multiple) ==
    value - (value % multiple)

\* smallest value >= `value` that is offset plus a multiple of `multiple`
\* (value >= offset), as test_ceil_timestamp has it for a week
ceil_multiple_offset(value, multiple, offset) ==
    ceil_multiple(value - offset, multiple) + offset

\* largest value <= `value` that is offset plus a multiple of `multiple`
\* (value >= offset), as test_floor_timestamp has it for a week
floor_multiple_offset(value, multiple, offset) ==
    floor_multiple(value - offset, multiple) + offset

\* -------------------------------------------------------------- timestamps
\* Timestamps and intervals are u64 milliseconds.  MONTH_MS exceeds the
\* integers of the model checker, so where the interval constants matter a
\* time is counted in units of MS_PER_UNIT milliseconds, the greatest common
\* divisor of DAY_MS and MONTH_MS (54 s).
MS_PER_UNIT == 54000
DAY_MS == 86400000 \div MS_PER_UNIT
WEEK_MS == 604800000 \div MS_PER_UNIT
MONTH_MS == 2629746 \div (MS_PER_UNIT \div 1000)
WEEK_OFFSET_MS == 345600000 \div MS_PER_UNIT

\* OffsetDateTime::to_calendar_date of a day count since 1970-01-01
\* (proleptic Gregorian calendar): [year, month]
to_calendar_date(days) ==
    LET z == days + 719468
        era == z \div 146097
        doe == z - era * 146097
        yoe == (doe - doe \div 1460 + doe \div 36524 - doe \div 146096) \div 365
        doy == doe - (365 * yoe + yoe \div 4 - yoe \div 100)
        mp == (5 * doy + 2) \div 153
        m == IF mp < 10 THEN mp + 3 ELSE mp - 9
    IN  [year |-> yoe + era * 400 + (IF m <= 2 THEN 1 ELSE 0), month |-> m]

\* Date::from_calendar_date(year, month, 1) as a day count since 1970-01-01
from_calendar_date(year, month) ==
    LET y == IF month <= 2 THEN year - 1 ELSE year
        era == y \div 400
        yoe == y - era * 400
        doy == (153 * (IF month > 2 THEN month - 3 ELSE month + 9) + 2) \div 5
        doe == yoe * 365 + yoe \div 4 - yoe \div 100 + doy
    IN  era * 146097 + doe - 719468

\* Timestamp::floor; "unimplemented" for the intervals the code rejects
Timestamp_floor(t, interval) ==
    IF interval < WEEK_MS THEN floor_multiple(t, interval)
    ELSE IF interval = WEEK_MS
    THEN floor_multiple_offset(t, interval, WEEK_OFFSET_MS)
    ELSE IF interval = MONTH_MS
    THEN LET date == to_calendar_date(t \div DAY_MS)
         IN  from_calendar_date(date.year, date.month) * DAY_MS
    ELSE "unimplemented"

\* Timestamp::ceil
Timestamp_ceil(t, interval) ==
    IF interval < WEEK_MS THEN ceil_multiple(t, interval)
    ELSE IF interval = WEEK_MS
    THEN ceil_multiple_offset(t, interval, WEEK_OFFSET_MS)
    ELSE IF interval = MONTH_MS
    THEN LET date == to_calendar_date(t \div DAY_MS)
             year == IF date.month = 12 THEN date.year + 1 ELSE date.year
             month == IF date.month = 12 THEN 1 ELSE date.month + 1
         IN  from_calendar_date(year, month) * DAY_MS
    ELSE "unimplemented"

\* time.rs, floor_timestamp: [panic, v]
floor_timestamp(timestamp, interval) ==
    IF interval < WEEK_MS
    THEN [panic |-> FALSE, v |-> floor_multiple(timestamp, interval)]
    ELSE IF interval = WEEK_MS
    THEN [panic |-> FALSE, v |-> floor_multiple_offset(timestamp, interval, WEEK_OFFSET_MS)]
    ELSE IF interval = MONTH_MS
    THEN LET date == to_calendar_date(timestamp \div DAY_MS)
         IN  [panic |-> FALSE, v |-> from_calendar_date(date.year, date.month) * DAY_MS]
    ELSE [panic |-> TRUE, v |-> 0]

\* time.rs, ceil_timestamp: [panic, v].  NaiveDate::from_ymd panics on a
\* month outside 1..12, and dt.month() + 1 is 13 in December.
ceil_timestamp(timestamp, interval) ==
    IF interval < WEEK_MS
    THEN [panic |-> FALSE, v |-> ceil_multiple(timestamp, interval)]
    ELSE IF interval = WEEK_MS
    THEN [panic |-> FALSE, v |-> ceil_multiple_offset(timestamp, interval, WEEK_OFFSET_MS)]
    ELSE IF interval = MONTH_MS
    THEN LET date == to_calendar_date(timestamp \div DAY_MS)
         IN  IF date.month + 1 > 12
             THEN [panic |-> TRUE, v |-> 0]
             ELSE [panic |-> FALSE,
                   v |-> from_calendar_date(date.year, date.month + 1) * DAY_MS]
    ELSE [panic |-> TRUE, v |-> 0]

\* ---------------------------------------------------------------- optimize
\* a > b on f64: false when either is NaN
f64_gt(a, b) == ~a.nan /\ ~b.nan /\ a.v > b.v

\* The hall of fame after one more individual was observed: the best K ever
\* observed in descending fitness, a NaN fitness never better than another.
RECURSIVE hall_of_fame_insert(_, _, _)
hall_of_fame_insert(hall_of_fame, fitness, size) ==
    IF size = 0 THEN <<>>
    ELSE IF hall_of_fame = <<>> THEN <<fitness>>
    ELSE IF f64_gt(fitness, Head(hall_of_fame))
              \/ (Head(hall_of_fame).nan /\ ~fitness.nan)
    THEN SubSeq(<<fitness>> \o hall_of_fame, 1, Min(size, Len(hall_of_fame) + 1))
    ELSE <<Head(hall_of_fame)>>
             \o hall_of_fame_insert(Tail(hall_of_fame), fitness, size - 1)

\* The hall of fame after a generation whose population has these fitnesses.
RECURSIVE hall_of_fame_update(_, _, _)
hall_of_fame_update(hall_of_fame, evaluated, size) ==
    IF evaluated = <<>> THEN hall_of_fame
    ELSE hall_of_fame_update(hall_of_fame_insert(hall_of_fame, Head(evaluated), size),
                             Tail(evaluated), size)

\* The closure of the filter of post on ranks k.. of one generation:
\* [best_fitnesses, pass]
RECURSIVE filter_ranks(_, _, _, _)
filter_ranks(hall_of_fame, best, k, pass) ==
    IF k > Len(hall_of_fame) \/ k > Len(best)
    THEN [best_fitnesses |-> best, pass |-> pass]
    ELSE IF best[k].nan \/ f64_gt(hall_of_fame[k], best[k])
    THEN filter_ranks(hall_of_fame, [best EXCEPT ![k] = hall_of_fame[k]], k + 1, TRUE)
    ELSE filter_ranks(hall_of_fame, best, k + 1, pass)

\* The closure of the filter of post: zip of the hall of fame with
\* best_fitnesses, from `pass = false`
filter_generation(hall_of_fame, best) ==
    filter_ranks(hall_of_fame, best, 1, FALSE)

\* --------------------------------------------------------------- responses
EmptyBody == [type |-> "Empty"]
Json(v) == [type |-> "Json", value |-> v]

\* IntoResponse for Error of juno_axum
Error_into_response(err) ==
    [status |-> 500, body |-> Json([message |-> err])]

\* IntoResponse for a StatusCode: the status and no body
StatusCode_into_response(status) ==
    [status |-> status, body |-> EmptyBody]

\* IntoResponse for (StatusCode::OK, Json(..))
Ok_into_response(v) ==
    [status |-> 200, body |-> Json(v)]

\* ------------------------------------------------------------------ client
\* Result: Ok(v) or Err(err)
Ok(v) == [state |-> "Ok", v |-> v]
Err(err) == [state |-> "Err", error |-> err]

\* Error of juno_core.rs
Request(cause) == [kind |-> "Request", cause |-> cause]
Api(status, url, message) ==
    [kind |-> "Api", status |-> status, url |-> url, message |-> message]

\* StatusCode::is_client_error, StatusCode::is_server_error
is_client_error(status) == 400 <= status /\ status < 500
is_server_error(status) == 500 <= status /\ status < 600

\* Response::json::<ApiError>: the body must be a JSON object with a message
json_ApiError(body) ==
    IF body.type = "Json" /\ "message" \in DOMAIN body.value
    THEN Ok([message |-> body.value.message])
    ELSE Err(Request("decode"))

\* Response::error_for_status
error_for_status(self) ==
    IF is_client_error(self.status) \/ is_server_error(self.status)
    THEN Err(Request("status"))
    ELSE Ok(self)

\* error_for_status alone, as reqwest offers it
error_for_juno_status_plain(self) ==
    error_for_status(self)

\* ResponseExt::error_for_juno_status
error_for_juno_status(self) ==
    IF is_client_error(self.status)
    THEN LET api_error == json_ApiError(self.body)
         IN  IF api_error.state = "Err" THEN api_error
             ELSE Err(Api(self.status, self.url, api_error.v.message))
    ELSE error_for_status(self)

\* -------------------------------------------------------------- evaluation
\* Fitness arithmetic.  A statistic and an accumulator are counts of
\* 1/SCALE.  The sum of two f64 is rounded to the nearest f64; the model
\* rounds to two significant decimal digits, ties to even, so that, as on
\* f64, a sum depends on the order of its terms.
RECURSIVE f64_round(_)
f64_round(x) ==
    IF x < 0 THEN -f64_round(-x)
    ELSE IF x < 100 THEN x
    ELSE LET q == x \div 10
             r == x % 10
             up == r > 5 \/ (r = 5 /\ q % 2 = 1)
         IN  10 * f64_round(IF up THEN q + 1 ELSE q)

f64_add(a, b) == f64_round(a + b)

\* f64::log10 and 10f64.powf, on the arguments that have an exact result
log10(x) ==
    CASE x = SCALE -> 0
      [] x = 10 * SCALE -> SCALE
      [] x = 100 * SCALE -> 2 * SCALE

powf10(y) ==
    CASE y = 0 -> SCALE
      [] y = SCALE -> 10 * SCALE
      [] y = 2 * SCALE -> 100 * SCALE

sum_linear(acc, val) == f64_add(acc, val)

\* LOG_SHIFT_FACTOR is 1.0
sum_log10(acc, val) ==
    f64_add(acc, IF val >= 0 THEN log10(val + SCALE)
                 ELSE -powf10(-val + SCALE))

\* FACTOR is 10.0
sum_log10_factored(acc, val) == sum_log10(acc, val * 10)

\* self.evaluation_aggregation_fn, chosen by new from evaluation_aggregation
evaluation_aggregation_fn(self, acc, val) ==
    CASE self.evaluation_aggregation = "Linear" -> sum_linear(acc, val)
      [] self.evaluation_aggregation = "Log10" -> sum_log10(acc, val)
      [] self.evaluation_aggregation = "Log10Factored" -> sum_log10_factored(acc, val)

\* BasicEvaluation::evaluate_symbol: trade on the candles of the context and
\* the chosen statistic of the summary; a function of the context and the
\* chromosome, kept in the context as the table of its results.
evaluate_symbol(self, symbol_ctx, chromosome) ==
    symbol_ctx.statistic[chromosome]

\* One step of the fold taking the contexts from the last to the first.
fold_step_reversed(self, acc, folded, chromosome) ==
    evaluation_aggregation_fn(self, acc,
        evaluate_symbol(self, self.symbol_ctxs[Len(self.symbol_ctxs) - folded], chromosome))

\* evaluate, lines 200-204: one step of
\* symbol_ctxs.iter().map(evaluate_symbol).fold(0.0, evaluation_aggregation_fn)
\* after `folded` contexts
fold_step(self, acc, folded, chromosome) ==
    evaluation_aggregation_fn(self, acc,
        evaluate_symbol(self, self.symbol_ctxs[folded + 1], chromosome))

\* --------------------------------------------------------------- intervals
\* An Interval is a u64 of milliseconds; YEAR_MS and MONTH_MS exceed the
\* integers of the model checker, so for formatting and parsing a value v is
\* kept as two limbs, v = s * 1000 + ms with 0 <= ms < 1000.  A string is a
\* sequence of characters.
Interval(s, ms) == [s |-> s + ms \div 1000, ms |-> ms % 1000]

\* INTERVAL_FACTORS, in descending order; every factor but the last is a
\* whole number of seconds
INTERVAL_FACTORS ==
    << [letter |-> <<"y">>, factor |-> Interval(31556952, 0)],
       [letter |-> <<"M">>, factor |-> Interval(2629746, 0)],
       [letter |-> <<"w">>, factor |-> Interval(604800, 0)],
       [letter |-> <<"d">>, factor |-> Interval(86400, 0)],
       [letter |-> <<"h">>, factor |-> Interval(3600, 0)],
       [letter |-> <<"m">>, factor |-> Interval(60, 0)],
       [letter |-> <<"s">>, factor |-> Interval(1, 0)],
       [letter |-> <<"m", "s">>, factor |-> Interval(0, 1)] >>

\* remainder / factor and remainder % factor on the limbs
Interval_div(v, factor) ==
    IF factor.s > 0 THEN v.s \div factor.s ELSE v.s * 1000 + v.ms
Interval_rem(v, factor) ==
    IF factor.s > 0 THEN Interval(v.s % factor.s, v.ms) ELSE Interval(0, 0)
\* count * factor and a + b on the limbs
Interval_mul(count, factor) == Interval(count * factor.s, count * factor.ms)
Interval_add(a, b) == Interval(a.s + b.s, a.ms + b.ms)

DigitChars == <<"0", "1", "2", "3", "4", "5", "6", "7", "8", "9">>
is_digit(c) == \E d \in 1..10 : DigitChars[d] = c
is_alphabetic(c) == ~is_digit(c)

\* u64::to_string
RECURSIVE to_string(_)
to_string(n) ==
    IF n < 10 THEN <<DigitChars[n + 1]>>
    ELSE to_string(n \div 10) \o <<DigitChars[(n % 10) + 1]>>

\* str::parse::<u64> of a string of digits
RECURSIVE parse_u64(_)
parse_u64(str) ==
    IF str = <<>> THEN 0
    ELSE parse_u64(SubSeq(str, 1, Len(str) - 1)) * 10
             + (CHOOSE d \in 0..9 : DigitChars[d + 1] = str[Len(str)])

\* impl Display for Interval: the loop over INTERVAL_FACTORS from index k
RECURSIVE Interval_fmt_from(_, _, _)
Interval_fmt_from(k, remainder, result) ==
    IF k > Len(INTERVAL_FACTORS) THEN result
    ELSE LET factor == INTERVAL_FACTORS[k].factor
             quotient == Interval_div(remainder, factor)
             rest == Interval_rem(remainder, factor)
             pushed == IF quotient > 0
                       THEN result \o to_string(quotient) \o INTERVAL_FACTORS[k].letter
                       ELSE result
         IN  IF rest = Interval(0, 0) THEN pushed
             ELSE Interval_fmt_from(k + 1, rest, pushed)

\* impl Display for Interval
Interval_fmt(v) ==
    LET result == Interval_fmt_from(1, v, <<>>)
    IN  IF result = <<>> THEN <<"0", "m", "s">> ELSE result

\* length of the longest prefix of str whose characters are digits (or not)
RECURSIVE run_length(_, _)
run_length(str, digits) ==
    IF str = <<>> \/ is_digit(Head(str)) # digits THEN 0
    ELSE 1 + run_length(Tail(str), digits)

\* INTERVAL_GROUP_RE.find_iter: the matches of (\d+[a-zA-Z]+), left to right
RECURSIVE find_iter(_)
find_iter(str) ==
    IF str = <<>> THEN <<>>
    ELSE LET nd == run_length(str, TRUE)
             nl == run_length(SubSeq(str, nd + 1, Len(str)), FALSE)
         IN  IF nd = 0 THEN find_iter(SubSeq(str, nl + 1, Len(str)))
             ELSE IF nl = 0 THEN find_iter(SubSeq(str, nd + 1, Len(str)))
             ELSE <<SubSeq(str, 1, nd + nl)>>
                      \o find_iter(SubSeq(str, nd + nl + 1, Len(str)))

\* calc_interval_group: [panic, v]; indexing INTERVAL_FACTOR_MAP with an
\* unknown unit panics
calc_interval_group(group) ==
    LET n == run_length(group, TRUE)
        unit == SubSeq(group, n + 1, Len(group))
        known == {k \in 1..Len(INTERVAL_FACTORS) : INTERVAL_FACTORS[k].letter = unit}
    IN  IF known = {} THEN [panic |-> TRUE, v |-> Interval(0, 0)]
        ELSE [panic |-> FALSE,
              v |-> Interval_mul(parse_u64(SubSeq(group, 1, n)),
                                 INTERVAL_FACTORS[CHOOSE k \in known : TRUE].factor)]

\* the fold of from_str over the groups
RECURSIVE fold_groups(_, _)
fold_groups(groups, acc) ==
    IF groups = <<>> THEN [panic |-> FALSE, v |-> acc]
    ELSE LET g == calc_interval_group(Head(groups))
         IN  IF g.panic THEN g
             ELSE fold_groups(Tail(groups), Interval_add(acc, g.v))

\* impl FromStr for Interval reading the first group only
Interval_from_str_first_group(str) ==
    LET groups == find_iter(str)
    IN  fold_groups(IF groups = <<>> THEN groups ELSE <<Head(groups)>>, Interval(0, 0))

\* impl FromStr for Interval: [panic, v]
Interval_from_str(str) ==
    fold_groups(find_iter(str), Interval(0, 0))

\* --------------------------------------------------------- BufferedCandle
Some(v) == [type |-> "Some", v |-> v]

\* impl AddAssign<&Candle> for Candle
Candle_add_assign(self, other) ==
    [self EXCEPT !.high = Max(@, other.high),
                 !.low = Min(@, other.low),
                 !.close = other.close,
                 !.volume = @ + other.volume]

\* BufferedCandle::new; buffer_interval is None or Some(interval)
BufferedCandle_new_unchecked(interval, buffer_interval) ==
    [panic |-> interval = 0,
     interval |-> interval,
     buffer_interval |-> IF buffer_interval # None THEN buffer_interval.v ELSE 0,
     enabled |-> /\ interval # 0
                 /\ buffer_interval # None
                 /\ buffer_interval.v > interval,
     buffer_candle |-> None]

\* A panic of new leaves no BufferedCandle behind: the record then only says
\* so, enabled is FALSE and no call of buffer follows.
BufferedCandle_new(interval, buffer_interval) ==
    [panic |-> \/ interval = 0
               \/ buffer_interval # None /\ interval > buffer_interval.v,
     interval |-> interval,
     buffer_interval |-> IF buffer_interval # None THEN buffer_interval.v ELSE 0,
     enabled |-> /\ interval # 0
                 /\ buffer_interval # None
                 /\ buffer_interval.v > interval,
     buffer_candle |-> None]

\* BufferedCandle::buffer panicking whenever a candle overflows the bucket
BufferedCandle_buffer_strict(self, candle) ==
    IF ~self.enabled THEN [self |-> self, ret |-> candle, panic |-> FALSE]
    ELSE
    LET overflow == /\ self.buffer_candle # None
                    /\ candle.time >= self.buffer_candle.time + self.buffer_interval
        ret == IF overflow THEN self.buffer_candle ELSE None
        buffer_candle ==
            IF self.buffer_candle = None
            THEN [candle EXCEPT !.time = Timestamp_floor(@, self.buffer_interval)]
            ELSE IF overflow THEN self.buffer_candle
            ELSE Candle_add_assign(self.buffer_candle, candle)
        is_last == (candle.time + self.interval) % self.buffer_interval = 0
    IN  IF ret # None
        THEN IF TRUE
             THEN [self |-> self, ret |-> None, panic |-> TRUE]
             ELSE [self |-> [self EXCEPT !.buffer_candle = candle],
                   ret |-> ret, panic |-> FALSE]
        ELSE IF is_last
        THEN [self |-> [self EXCEPT !.buffer_candle = None],
              ret |-> buffer_candle, panic |-> FALSE]
        ELSE [self |-> [self EXCEPT !.buffer_candle = buffer_candle],
              ret |-> None, panic |-> FALSE]

\* BufferedCandle::buffer: [self, ret, panic]; ret is None or the emitted
\* candle ("too many missing candles" is the only panic)
BufferedCandle_buffer(self, candle) ==
    IF ~self.enabled THEN [self |-> self, ret |-> candle, panic |-> FALSE]
    ELSE
    LET overflow == /\ self.buffer_candle # None
                    /\ candle.time >= self.buffer_candle.time + self.buffer_interval
        ret == IF overflow THEN self.buffer_candle ELSE None
        buffer_candle ==
            IF self.buffer_candle = None
            THEN [candle EXCEPT !.time = Timestamp_floor(@, self.buffer_interval)]
            ELSE IF overflow THEN self.buffer_candle
            ELSE Candle_add_assign(self.buffer_candle, candle)
        is_last == (candle.time + self.interval) % self.buffer_interval = 0
    IN  IF ret # None
        THEN IF is_last
             THEN [self |-> self, ret |-> None, panic |-> TRUE]
             ELSE [self |-> [self EXCEPT !.buffer_candle = candle],
                   ret |-> ret, panic |-> FALSE]
        ELSE IF is_last
        THEN [self |-> [self EXCEPT !.buffer_candle = None],
              ret |-> buffer_candle, panic |-> FALSE]
        ELSE [self |-> [self EXCEPT !.buffer_candle = buffer_candle],
              ret |-> None, panic |-> FALSE]

\* ---------------------------------------------------------------- filters
\* Size::round_down clamping to max whether or not max is set
Size_round_down_always_clamped(f, size) ==
    IF size < f.min THEN 0
    ELSE LET s1 == Min(size, f.max)
         IN  IF f.step > 0 THEN (s1 \div f.step) * f.step ELSE s1

\* Size::round_down on an amount counted in 1/SCALE
Size_round_down(f, size) ==
    IF size < f.min THEN 0
    ELSE LET s1 == IF f.max > 0 THEN Min(size, f.max) ELSE size
         IN  IF f.step > 0 THEN (s1 \div f.step) * f.step ELSE s1

\* Size::valid, lines 64-66; with step 0 the remainder is NaN and the
\* comparison with 0.0 false
Size_valid(f, size) ==
    size >= f.min /\ size <= f.max /\ f.step # 0 /\ (size - f.min) % f.step = 0

\* Price::round_down: the same steps as Size::round_down
Price_round_down(f, price) ==
    IF price < f.min THEN 0
    ELSE LET p1 == IF f.max > 0 THEN Min(price, f.max) ELSE price
         IN  IF f.step > 0 THEN (p1 \div f.step) * f.step ELSE p1

\* An f64 that may be NaN; v counts 1/SCALE.
F64(v) == [nan |-> FALSE, v |-> v]
NaN == [nan |-> TRUE, v |-> 0]

\* Size::round_up for size >= 0: the clamp and the division are unguarded.
\* With step = 0 the quotient is +inf (size > 0) or NaN (size = 0), ceil
\* keeps it, and the product with 0.0 is NaN.
Size_round_up(f, size) ==
    IF size < f.min THEN F64(0)
    ELSE LET s1 == Min(size, f.max)
         IN  IF f.step = 0
             THEN NaN
             ELSE F64(((s1 + f.step - 1) \div f.step) * f.step)

\* ------------------------------------------------------------- sub-policies
\* Changed::new(true)
Changed_new == [previous |-> "None"]

\* Changed::update: a repeated advice collapses into Advice::None
Changed_update(changed, value) ==
    [changed |-> [previous |-> value],
     result  |-> IF value # changed.previous THEN value ELSE "None"]

\* stop_loss::Basic::new / Noop
StopLoss_construct(p) ==
    IF p.kind = "Basic"
    THEN [kind |-> "Basic",
          up_threshold_factor   |-> RateDen - p.up_threshold,
          down_threshold_factor |-> RateDen + p.down_threshold,
          close_at_position |-> 0, close |-> 0]
    ELSE [kind |-> "Noop"]

StopLoss_upside_hit(sl) ==
    /\ sl.kind = "Basic"
    /\ sl.close * RateDen <= sl.close_at_position * sl.up_threshold_factor

StopLoss_downside_hit(sl) ==
    /\ sl.kind = "Basic"
    /\ sl.close * RateDen >= sl.close_at_position * sl.down_threshold_factor

StopLoss_clear(sl, candle) ==
    IF sl.kind = "Basic" THEN [sl EXCEPT !.close_at_position = candle.close] ELSE sl

\* update that moves the reference close along with the latest close
StopLoss_update_moving_reference(sl, candle) ==
    IF sl.kind = "Basic"
    THEN [sl EXCEPT !.close = candle.close, !.close_at_position = candle.close]
    ELSE sl

StopLoss_update(sl, candle) ==
    IF sl.kind = "Basic" THEN [sl EXCEPT !.close = candle.close] ELSE sl

\* take_profit::Basic::new / Noop
TakeProfit_construct(p) ==
    IF p.kind = "Basic"
    THEN [kind |-> "Basic",
          up_threshold_factor   |-> RateDen + p.up_threshold,
          down_threshold_factor |-> RateDen - p.down_threshold,
          close_at_position |-> 0, close |-> 0]
    ELSE [kind |-> "Noop"]

TakeProfit_upside_hit(tp) ==
    /\ tp.kind = "Basic"
    /\ tp.close * RateDen >= tp.close_at_position * tp.up_threshold_factor

TakeProfit_downside_hit(tp) ==
    /\ tp.kind = "Basic"
    /\ tp.close * RateDen <= tp.close_at_position * tp.down_threshold_factor

TakeProfit_clear(tp, candle) ==
    IF tp.kind = "Basic" THEN [tp EXCEPT !.close_at_position = candle.close] ELSE tp

TakeProfit_update(tp, candle) ==
    IF tp.kind = "Basic" THEN [tp EXCEPT !.close = candle.close] ELSE tp

\* ------------------------------------------------------------- positions
\* OpenLongPosition::base_gain
base_gain(pos) == pos.fills.size - pos.fills.fee

\* OpenLongPosition::close
OpenLongPosition_close(pos, time, fills, reason) ==
    [type |-> "Long", open_time |-> pos.time, open_fills |-> pos.fills,
     close_time |-> time, close_fills |-> fills, close_reason |-> reason]

\* OpenShortPosition::close
OpenShortPosition_close(pos, time, fills, reason) ==
    [type |-> "Short", open_time |-> pos.time,
     collateral |-> pos.collateral, borrowed |-> pos.borrowed,
     open_fills |-> pos.fills,
     close_time |-> time, close_fills |-> fills, close_reason |-> reason]

\* ------------------------------------------------------------------ engine
\* State::new
State_new(quote, stop_loss, take_profit) ==
    [strategy |-> "None",
     stop_loss |-> stop_loss,
     take_profit |-> take_profit,
     changed |-> Changed_new,
     quote |-> quote,
     open_position |-> None,
     last_candle |-> None]

\* The engine while it runs: the State, the ledger and the panic flag.
Engine(st, positions, panic) == [state |-> st, positions |-> positions, panic |-> panic]

\* state.quote / price is the rational quote/price.  Size::round_down of a
\* rational x with integer min, max and step > 0 equals Size::round_down of
\* floor(x) (floor(floor(x) / n) = floor(x / n)), so the quotient is floored to
\* 1/SCALE before it is rounded.  FilterSet holds filters with step > 0 only.
try_open_long_position(st, fees, filters, time, price) ==
    LET size == Size_round_down(filters.size, (st.quote * SCALE) \div price)
        quote == round_down(price * size, SCALE * SCALE, filters.quote_precision)
        fee == round_half_up(size * fees.taker, SCALE * RateDen, filters.base_precision)
    IN  IF size = 0
        THEN [state |-> st, err |-> TRUE]
        ELSE [state |-> [st EXCEPT
                  !.open_position = [type |-> "Long", time |-> time,
                                     fills |-> [price |-> price, size |-> size,
                                                quote |-> quote, fee |-> fee]],
                  !.quote = @ - quote],
              err |-> FALSE]

\* close_long_position that credits the quote without taking the fee off.
close_long_position_fee_kept(e, fees, filters, time, price, reason) ==
    IF e.state.open_position.type = "Long"
    THEN LET pos == e.state.open_position
             size == Size_round_down(filters.size, base_gain(pos))
             quote == round_down(price * size, SCALE * SCALE, filters.quote_precision)
             fee == round_half_up(quote * fees.taker, SCALE * RateDen, filters.quote_precision)
             closed == OpenLongPosition_close(pos, time,
                          [price |-> price, size |-> size, quote |-> quote, fee |-> fee],
                          reason)
         IN  Engine([e.state EXCEPT !.open_position = None, !.quote = @ + quote],
                    Append(e.positions, closed), e.panic)
    ELSE Engine([e.state EXCEPT !.open_position = None], e.positions, TRUE)

close_long_position(e, fees, filters, time, price, reason) ==
    IF e.state.open_position.type = "Long"
    THEN LET pos == e.state.open_position
             size == Size_round_down(filters.size, base_gain(pos))
             quote == round_down(price * size, SCALE * SCALE, filters.quote_precision)
             fee == round_half_up(quote * fees.taker, SCALE * RateDen, filters.quote_precision)
             closed == OpenLongPosition_close(pos, time,
                          [price |-> price, size |-> size, quote |-> quote, fee |-> fee],
                          reason)
         IN  Engine([e.state EXCEPT !.open_position = None, !.quote = @ + (quote - fee)],
                    Append(e.positions, closed), e.panic)
    ELSE Engine([e.state EXCEPT !.open_position = None], e.positions, TRUE)

try_open_short_position(st, fees, filters, borrow_info, margin_multiplier, time, price) ==
    LET collateral_size == Size_round_down(filters.size, (st.quote * SCALE) \div price)
        borrowed == Min(collateral_size * (margin_multiplier - 1), borrow_info.limit)
        quote == round_down(price * borrowed, SCALE * SCALE, filters.quote_precision)
        fee == round_half_up(quote * fees.taker, SCALE * RateDen, filters.quote_precision)
    IN  IF collateral_size = 0
        THEN [state |-> st, err |-> TRUE]
        ELSE [state |-> [st EXCEPT
                  !.open_position = [type |-> "Short", time |-> time,
                                     collateral |-> st.quote, borrowed |-> borrowed,
                                     fills |-> [price |-> price, size |-> borrowed,
                                                quote |-> quote, fee |-> fee]],
                  !.quote = @ + (quote - fee)],
              err |-> FALSE]

close_short_position_floor_periods(e, fees, filters, borrow_info, time, price, reason) ==
    IF e.state.open_position.type = "Short"
    THEN LET pos == e.state.open_position
             borrowed == pos.borrowed
             duration == floor_multiple(time - pos.time, borrow_info.interest_interval)
                             \div borrow_info.interest_interval
             interest == round_half_up(borrowed * duration * borrow_info.interest_rate,
                                       SCALE * RateDen, filters.base_precision)
             size0 == borrowed + interest
             fee == round_half_up(size0 * fees.taker, SCALE * RateDen, filters.base_precision)
             size == size0 + fee
             quote == round_down(price * size, SCALE * SCALE, filters.quote_precision)
             closed == OpenShortPosition_close(pos, time,
                          [price |-> price, size |-> size, quote |-> quote, fee |-> fee],
                          reason)
         IN  Engine([e.state EXCEPT !.open_position = None, !.quote = @ - quote],
                    Append(e.positions, closed), e.panic)
    ELSE Engine([e.state EXCEPT !.open_position = None], e.positions, TRUE)

close_short_position(e, fees, filters, borrow_info, time, price, reason) ==
    IF e.state.open_position.type = "Short"
    THEN LET pos == e.state.open_position
             borrowed == pos.borrowed
             duration == ceil_multiple(time - pos.time, borrow_info.interest_interval)
                             \div borrow_info.interest_interval
             interest == round_half_up(borrowed * duration * borrow_info.interest_rate,
                                       SCALE * RateDen, filters.base_precision)
             size0 == borrowed + interest
             fee == round_half_up(size0 * fees.taker, SCALE * RateDen, filters.base_precision)
             size == size0 + fee
             quote == round_down(price * size, SCALE * SCALE, filters.quote_precision)
             closed == OpenShortPosition_close(pos, time,
                          [price |-> price, size |-> size, quote |-> quote, fee |-> fee],
                          reason)
         IN  Engine([e.state EXCEPT !.open_position = None, !.quote = @ - quote],
                    Append(e.positions, closed), e.panic)
    ELSE Engine([e.state EXCEPT !.open_position = None], e.positions, TRUE)

\* tick_advice without the debouncer: the strategy's advice is used as it is.
tick_advice_undebounced(st, candle, strategy_advice) ==
    [state |-> [st EXCEPT
         !.stop_loss = StopLoss_update(@, candle),
         !.take_profit = TakeProfit_update(@, candle),
         !.strategy = strategy_advice,
         !.changed = Changed_update(@, strategy_advice).changed],
     advice |-> strategy_advice]

\* tick, lines 138-141: update the sub-policies, then debounce the advice.
\* strategy_advice is what strategy.advice() returns after the update.
tick_advice(st, candle, strategy_advice) ==
    LET ch == Changed_update(st.changed, strategy_advice)
    IN  [state |-> [st EXCEPT
             !.stop_loss = StopLoss_update(@, candle),
             !.take_profit = TakeProfit_update(@, candle),
             !.strategy = strategy_advice,
             !.changed = ch.changed],
         advice |-> ch.result]

\* tick_close asking the stop-loss before the advice for a long position.
tick_close_stop_loss_first(e, fees, filters, borrow_info, interval, candle, advice) ==
    LET st == e.state
        time == candle.time + interval
    IN  IF st.open_position.type = "Long"
        THEN IF StopLoss_upside_hit(st.stop_loss)
             THEN close_long_position(e, fees, filters, time, candle.close, "StopLoss")
             ELSE IF advice = "Short" \/ advice = "Liquidate"
             THEN close_long_position(e, fees, filters, time, candle.close, "Strategy")
             ELSE IF TakeProfit_upside_hit(st.take_profit)
             THEN close_long_position(e, fees, filters, time, candle.close, "TakeProfit")
             ELSE e
        ELSE IF st.open_position.type = "Short"
        THEN IF advice = "Long" \/ advice = "Liquidate"
             THEN close_short_position(e, fees, filters, borrow_info, time, candle.close,
                                       "Strategy")
             ELSE IF StopLoss_downside_hit(st.stop_loss)
             THEN close_short_position(e, fees, filters, borrow_info, time, candle.close,
                                       "StopLoss")
             ELSE IF TakeProfit_downside_hit(st.take_profit)
             THEN close_short_position(e, fees, filters, borrow_info, time, candle.close,
                                       "TakeProfit")
             ELSE e
        ELSE e

\* tick_close whose stop-loss branch of a short position calls the long close.
tick_close_wrong_side(e, fees, filters, borrow_info, interval, candle, advice) ==
    LET st == e.state
        time == candle.time + interval
    IN  IF st.open_position.type = "Long"
        THEN IF advice = "Short" \/ advice = "Liquidate"
             THEN close_long_position(e, fees, filters, time, candle.close, "Strategy")
             ELSE IF StopLoss_upside_hit(st.stop_loss)
             THEN close_long_position(e, fees, filters, time, candle.close, "StopLoss")
             ELSE IF TakeProfit_upside_hit(st.take_profit)
             THEN close_long_position(e, fees, filters, time, candle.close, "TakeProfit")
             ELSE e
        ELSE IF st.open_position.type = "Short"
        THEN IF advice = "Long" \/ advice = "Liquidate"
             THEN close_short_position(e, fees, filters, borrow_info, time, candle.close,
                                       "Strategy")
             ELSE IF StopLoss_downside_hit(st.stop_loss)
             THEN close_long_position(e, fees, filters, time, candle.close, "StopLoss")
             ELSE IF TakeProfit_downside_hit(st.take_profit)
             THEN close_short_position(e, fees, filters, borrow_info, time, candle.close,
                                       "TakeProfit")
             ELSE e
        ELSE e

\* tick_close that closes at the time of the candle instead of its end.
tick_close_at_candle_time(e, fees, filters, borrow_info, interval, candle, advice) ==
    LET st == e.state
        time == candle.time
    IN  IF st.open_position.type = "Long"
        THEN IF advice = "Short" \/ advice = "Liquidate"
             THEN close_long_position(e, fees, filters, time, candle.close, "Strategy")
             ELSE IF StopLoss_upside_hit(st.stop_loss)
             THEN close_long_position(e, fees, filters, time, candle.close, "StopLoss")
             ELSE IF TakeProfit_upside_hit(st.take_profit)
             THEN close_long_position(e, fees, filters, time, candle.close, "TakeProfit")
             ELSE e
        ELSE IF st.open_position.type = "Short"
        THEN IF advice = "Long" \/ advice = "Liquidate"
             THEN close_short_position(e, fees, filters, borrow_info, time, candle.close,
                                       "Strategy")
             ELSE IF StopLoss_downside_hit(st.stop_loss)
             THEN close_short_position(e, fees, filters, borrow_info, time, candle.close,
                                       "StopLoss")
             ELSE IF TakeProfit_downside_hit(st.take_profit)
             THEN close_short_position(e, fees, filters, borrow_info, time, candle.close,
                                       "TakeProfit")
             ELSE e
        ELSE e

\* tick, lines 143-210: close the open position if something asks for it.
tick_close(e, fees, filters, borrow_info, interval, candle, advice) ==
    LET st == e.state
        time == candle.time + interval
    IN  IF st.open_position.type = "Long"
        THEN IF advice = "Short" \/ advice = "Liquidate"
             THEN close_long_position(e, fees, filters, time, candle.close, "Strategy")
             ELSE IF StopLoss_upside_hit(st.stop_loss)
             THEN close_long_position(e, fees, filters, time, candle.close, "StopLoss")
             ELSE IF TakeProfit_upside_hit(st.take_profit)
             THEN close_long_position(e, fees, filters, time, candle.close, "TakeProfit")
             ELSE e
        ELSE IF st.open_position.type = "Short"
        THEN IF advice = "Long" \/ advice = "Liquidate"
             THEN close_short_position(e, fees, filters, borrow_info, time, candle.close,
                                       "Strategy")
             ELSE IF StopLoss_downside_hit(st.stop_loss)
             THEN close_short_position(e, fees, filters, borrow_info, time, candle.close,
                                       "StopLoss")
             ELSE IF TakeProfit_downside_hit(st.take_profit)
             THEN close_short_position(e, fees, filters, borrow_info, time, candle.close,
                                       "TakeProfit")
             ELSE e
        ELSE e

\* The open phase of tick with its three decisions as parameters: whether the
\* phase runs, whether a side may be opened, and the time of the open.
tick_open_with(runs, long_ok, short_ok, time, st, fees, filters, borrow_info, margin_multiplier, candle, advice) ==
    LET cleared(s) == [s EXCEPT !.stop_loss = StopLoss_clear(@, candle),
                                !.take_profit = TakeProfit_clear(@, candle)]
    IN  IF runs
        THEN IF long_ok /\ advice = "Long"
             THEN LET r == try_open_long_position(st, fees, filters, time, candle.close)
                  IN  IF r.err
                      THEN [state |-> r.state, err |-> TRUE, attempt |-> "Long"]
                      ELSE [state |-> cleared(r.state), err |-> FALSE, attempt |-> "Long"]
             ELSE IF short_ok /\ advice = "Short"
             THEN LET r == try_open_short_position(st, fees, filters, borrow_info,
                                                   margin_multiplier, time, candle.close)
                  IN  IF r.err
                      THEN [state |-> r.state, err |-> TRUE, attempt |-> "Short"]
                      ELSE [state |-> cleared(r.state), err |-> FALSE, attempt |-> "Short"]
             ELSE [state |-> cleared(st), err |-> FALSE, attempt |-> "None"]
        ELSE [state |-> st, err |-> FALSE, attempt |-> "None"]

\* tick_open that clears only in ticks without an open attempt.
tick_open_clear_without_attempt(st, fees, filters, borrow_info, margin_multiplier, interval, long, short, candle, advice) ==
    LET r == tick_open_with(st.open_position = None, long, short, candle.time + interval,
                            st, fees, filters, borrow_info, margin_multiplier, candle, advice)
    IN  IF r.attempt # "None" /\ ~r.err
        THEN [r EXCEPT !.state.stop_loss = st.stop_loss, !.state.take_profit = st.take_profit]
        ELSE r

\* tick_open that opens at the candle's time instead of its end.
tick_open_at_candle_time(st, fees, filters, borrow_info, margin_multiplier, interval, long, short, candle, advice) ==
    tick_open_with(st.open_position = None, long, short, candle.time,
                   st, fees, filters, borrow_info, margin_multiplier, candle, advice)

\* tick_open that does not ask whether a position is open.
tick_open_unguarded(st, fees, filters, borrow_info, margin_multiplier, interval, long, short, candle, advice) ==
    tick_open_with(TRUE, long, short, candle.time + interval,
                   st, fees, filters, borrow_info, margin_multiplier, candle, advice)

\* tick_open that does not ask whether long positions are enabled.
tick_open_any_long(st, fees, filters, borrow_info, margin_multiplier, interval, long, short, candle, advice) ==
    tick_open_with(st.open_position = None, TRUE, short, candle.time + interval,
                   st, fees, filters, borrow_info, margin_multiplier, candle, advice)

\* tick, lines 212-228: with no position open, try to open one and clear the
\* stop-loss and take-profit.  `?` returns the Err before the clears.
\* attempt names the try_open_* function that was called.
tick_open(st, fees, filters, borrow_info, margin_multiplier, interval, long, short, candle, advice) ==
    LET time == candle.time + interval
        cleared(s) == [s EXCEPT !.stop_loss = StopLoss_clear(@, candle),
                                !.take_profit = TakeProfit_clear(@, candle)]
    IN  IF st.open_position = None
        THEN IF long /\ advice = "Long"
             THEN LET r == try_open_long_position(st, fees, filters, time, candle.close)
                  IN  IF r.err
                      THEN [state |-> r.state, err |-> TRUE, attempt |-> "Long"]
                      ELSE [state |-> cleared(r.state), err |-> FALSE, attempt |-> "Long"]
             ELSE IF short /\ advice = "Short"
             THEN LET r == try_open_short_position(st, fees, filters, borrow_info,
                                                   margin_multiplier, time, candle.close)
                  IN  IF r.err
                      THEN [state |-> r.state, err |-> TRUE, attempt |-> "Short"]
                      ELSE [state |-> cleared(r.state), err |-> FALSE, attempt |-> "Short"]
             ELSE [state |-> cleared(st), err |-> FALSE, attempt |-> "None"]
        ELSE [state |-> st, err |-> FALSE, attempt |-> "None"]

\* tick: the engine after one candle, with the Result (err) and what was done.
tick(e, fees, filters, borrow_info, margin_multiplier, interval, long, short, candle, strategy_advice) ==
    LET a == tick_advice(e.state, candle, strategy_advice)
        c == tick_close(Engine(a.state, e.positions, e.panic), fees, filters, borrow_info,
                        interval, candle, a.advice)
        o == tick_open(c.state, fees, filters, borrow_info, margin_multiplier, interval,
                       long, short, candle, a.advice)
    IN  [state |-> IF o.err THEN o.state ELSE [o.state EXCEPT !.last_candle = candle],
         positions |-> c.positions,
         panic |-> c.panic,
         err |-> o.err,
         advice |-> a.advice,
         attempt |-> o.attempt]

\* trade_cancel that closes at the last candle's time instead of its end.
trade_cancel_at_candle_time(e, fees, filters, borrow_info, interval) ==
    LET last_candle == e.state.last_candle
    IN  IF last_candle # None
        THEN IF e.state.open_position.type = "Long"
             THEN close_long_position(e, fees, filters, last_candle.time,
                                      last_candle.close, "Cancelled")
             ELSE IF e.state.open_position.type = "Short"
             THEN close_short_position(e, fees, filters, borrow_info,
                                       last_candle.time, last_candle.close, "Cancelled")
             ELSE e
        ELSE e

\* trade, lines 97-120: end-of-series cancellation.
trade_cancel(e, fees, filters, borrow_info, interval) ==
    LET last_candle == e.state.last_candle
    IN  IF last_candle # None
        THEN IF e.state.open_position.type = "Long"
             THEN close_long_position(e, fees, filters, last_candle.time + interval,
                                      last_candle.close, "Cancelled")
             ELSE IF e.state.open_position.type = "Short"
             THEN close_short_position(e, fees, filters, borrow_info,
                                       last_candle.time + interval, last_candle.close,
                                       "Cancelled")
             ELSE e
        ELSE e

\* ------------------------------------------------------------ state machine
SubPolicyParams ==
    {[kind |-> "Noop"]} \cup
    [kind : {"Basic"}, up_threshold : Thresholds, down_threshold : Thresholds]

NoTick == [candle |-> None, advice |-> "None", attempt |-> "None", err |-> FALSE,
           closed |-> FALSE]

\* The times the last candle of a series can have.
LastTimes ==
    {0} \cup {f + span * interval : f \in FirstTimes, interval \in Intervals,
                                   span \in 0..((MaxCandles - 1) * MaxGap)}

\* The candle series of an input: strictly increasing times, two candles
\* 1..MaxGap intervals apart.  An empty series has no times (both are 0).
CandleTimesOk(in, interval) ==
    IF in.candles_len = 0
    THEN in.first_time = 0 /\ in.last_time = 0
    ELSE \E span \in (in.candles_len - 1)..((in.candles_len - 1) * MaxGap) :
            in.last_time = in.first_time + span * interval

\* trade with the end of the summary at the open of the last candle.
trade_start_end_at_last_open(candles_len, first_time, last_time, interval) ==
    IF candles_len = 0
    THEN [start |-> 0, end |-> 0]
    ELSE [start |-> first_time, end |-> last_time]

\* trade, lines 58-66: start and end of the summary.
trade_start_end(candles_len, first_time, last_time, interval) ==
    IF candles_len = 0
    THEN [start |-> 0, end |-> interval]
    ELSE [start |-> first_time, end |-> last_time + interval]

\* TradingSummary::new
TradingSummary_new(start, end, quote) ==
    [positions |-> <<>>, start |-> start, end |-> end, quote |-> quote]

\* No filter is under call.
Filter_Idle ==
    /\ filter = None
    /\ filter_arg = 0
    /\ rounded = None

\* No BufferedCandle exists.
Buffer_Idle ==
    /\ buffered = None
    /\ fed = <<>>
    /\ emitted = <<>>
    /\ buffer_panicked = FALSE
    /\ buffer_args = None
    /\ buffer_sources = None

NoAlign == [op |-> "None", panic |-> FALSE, once |-> 0, twice |-> 0]

\* No timestamp is under alignment.
Time_Idle ==
    /\ ts = 0
    /\ ts_interval = 0
    /\ aligned = NoAlign

NoParse == [done |-> FALSE, panic |-> FALSE, v |-> Interval(0, 0)]

\* No interval is under formatting.
Interval_Idle ==
    /\ iv = Interval(0, 0)
    /\ iv_repr = <<>>
    /\ iv_parsed = NoParse

\* No POST /optimize is being handled.
Optimize_Idle ==
    /\ args = None
    /\ evolution = <<>>
    /\ best_fitnesses = <<>>
    /\ gen_stats = <<>>
    /\ filtered = 0
    /\ failure = None
    /\ response = None

\* No POST /backtest is being handled.
Backtest_Idle ==
    /\ backtest_args = None
    /\ symbol_summaries = <<>>
    /\ symbol_stats = None
    /\ backtest_response = None

\* No response of the data service is at hand.
Client_Idle ==
    /\ upstream = None
    /\ surfaced = None

\* No population is under evaluation.
Evaluation_Idle ==
    /\ evaluation = None
    /\ population = <<>>
    /\ tasks = <<>>

\* No DM indicator exists.
DM_Idle ==
    /\ dm = None
    /\ dm_fed = <<>>
    /\ dm_dir = None

\* No chromosome exists.
Chromosome_Idle ==
    /\ trader_ctx = None
    /\ trader_params = None
    /\ chromosome_call = None

\* No candles are being gathered.
Exchange_Idle ==
    /\ gather_keys = None
    /\ gather_values = None
    /\ gathered = None

\* trade, lines 55-76: the state before the first candle.
Init ==
    /\ params \in [trader : [interval : Intervals],
                   stop_loss : SubPolicyParams,
                   take_profit : SubPolicyParams]
    /\ input \in {in \in [candles_len : 0..MaxCandles,
                          first_time : FirstTimes \cup {0},
                          last_time : LastTimes,
                          fees : [taker : TakerRates],
                          filters : FilterSet,
                          borrow_info : BorrowInfos,
                          margin_multiplier : MarginMultipliers,
                          quote : Quotes,
                          long : BOOLEAN,
                          short : BOOLEAN] :
                       /\ in.candles_len > 0 => in.first_time \in FirstTimes
                       /\ CandleTimesOk(in, params.trader.interval)}
    /\ state = State_new(input.quote, StopLoss_construct(params.stop_loss),
                         TakeProfit_construct(params.take_profit))
    /\ summary = LET se == trade_start_end(input.candles_len, input.first_time,
                                           input.last_time, params.trader.interval)
                 IN  TradingSummary_new(se.start, se.end, input.quote)
    /\ i = 0
    /\ pc = IF input.candles_len = 0 THEN "finish" ELSE "loop"
    /\ Filter_Idle
    /\ Buffer_Idle
    /\ Time_Idle
    /\ Interval_Idle
    /\ Optimize_Idle
    /\ Backtest_Idle
    /\ Client_Idle
    /\ Evaluation_Idle
    /\ DM_Idle
    /\ Chromosome_Idle
    /\ Exchange_Idle
    /\ panicked = FALSE
    /\ trace = NoTick
    /\ num_opened = 0

\* The time of the next candle: the first one is at input.first_time, every
\* later one 1..MaxGap intervals after the previous one and such that the
\* last candle of the series can be at input.last_time.
NextTimes ==
    IF i = 0 THEN {input.first_time}
    ELSE LET interval == params.trader.interval
             rest == input.candles_len - (i + 1)
         IN  {t \in {trace.candle.time + g * interval : g \in 1..MaxGap} :
                 /\ t + rest * interval <= input.last_time
                 /\ input.last_time <= t + rest * MaxGap * interval}

\* loop control that goes on after an Err of tick.
loop_control_ignoring_err(err, taken, candles_len) ==
    IF taken = candles_len THEN "finish" ELSE "loop"

\* trade, lines 78 and 91-94: the loop ends when the candles are used up or
\* tick returned an Err (break).
loop_control(err, taken, candles_len) ==
    IF err \/ taken = candles_len THEN "finish" ELSE "loop"

\* trade, lines 78-95: one iteration of the candle loop.
Tick ==
    /\ pc = "loop"
    /\ ~panicked
    /\ \E time \in NextTimes, close \in Closes, strategy_advice \in Advice :
         LET candle == [time |-> time, close |-> close]
             r == tick(Engine(state, summary.positions, panicked),
                       input.fees, input.filters, input.borrow_info,
                       input.margin_multiplier, params.trader.interval,
                       input.long, input.short, candle, strategy_advice)
         IN  /\ state' = r.state
             /\ summary' = [summary EXCEPT !.positions = r.positions]
             /\ panicked' = r.panic
             /\ i' = i + 1
             /\ pc' = loop_control(r.err, i + 1, input.candles_len)
             /\ trace' = [candle |-> candle, advice |-> r.advice, attempt |-> r.attempt,
                          err |-> r.err,
                          closed |-> Len(r.positions) > Len(summary.positions)]
             /\ num_opened' = num_opened + (IF r.attempt # "None" /\ ~r.err THEN 1 ELSE 0)
    /\ UNCHANGED <<params, input>>
    /\ UNCHANGED unit_vars

\* trade, lines 97-122: after the loop, cancel the open position and return.
Finish ==
    /\ pc = "finish"
    /\ ~panicked
    /\ LET r == trade_cancel(Engine(state, summary.positions, panicked),
                             input.fees, input.filters, input.borrow_info,
                             params.trader.interval)
       IN  /\ state' = r.state
           /\ summary' = [summary EXCEPT !.positions = r.positions]
           /\ panicked' = r.panic
    /\ pc' = "done"
    /\ UNCHANGED <<params, input, i, trace, num_opened>>
    /\ UNCHANGED unit_vars

Next == Tick \/ Finish

Spec == Init /\ [][Next]_vars

\* ------------------------------------------------------------------ claims
Positions == summary.positions
Last(seq) == seq[Len(seq)]
IsOpen(st) == st.open_position # None
\* a step of the candle loop
TickStep == i' = i + 1
\* the step after the loop
FinishStep == pc = "finish" /\ pc' = "done"

\* C1: the summary lists positions in the order they were opened, and every
\* position is closed no later than the next one is opened; a position that
\* is still open was opened no earlier than the last ledger entry was closed.
C1_LedgerOrdering ==
    /\ \A k \in 1..(Len(Positions) - 1) :
          /\ Positions[k].open_time <= Positions[k + 1].open_time
          /\ Positions[k].close_time <= Positions[k + 1].open_time
    /\ (IsOpen(state) /\ Len(Positions) > 0) =>
          Last(Positions).close_time <= state.open_position.time

\* three positions, each opened in the tick that closed the one before
C1_Witness ==
    /\ pc = "done"
    /\ Len(Positions) = 3
    /\ Positions[1].close_time = Positions[2].open_time
    /\ Positions[2].close_time = Positions[3].open_time
    /\ Positions[1].open_time < Positions[2].open_time

\* C2: at most one position is open: every successful open found no position
\* open, so each opened position is either the one open now or in the ledger.
C2_SinglePosition ==
    num_opened = Len(Positions) + (IF IsOpen(state) THEN 1 ELSE 0)

\* the strategy advises Long anew while the long position of an earlier tick
\* is open, and the tick opens nothing
C2_Witness ==
    /\ IsOpen(state)
    /\ num_opened = 1
    /\ input.long
    /\ trace.advice = "Long"
    /\ trace.attempt = "None"
    /\ state.open_position.type = "Long"
    /\ state.open_position.time < trace.candle.time

\* C3: the step after the loop closes a position that is still open with
\* reason Cancelled at last_candle.time + interval and price last_candle.close
\* and adds nothing else; the returned summary leaves no position open and
\* Cancelled is found on its last position only.
C3_CancelledClosure ==
    /\ [][FinishStep =>
            /\ ~IsOpen(state')
            /\ IF IsOpen(state)
               THEN /\ Len(Positions') = Len(Positions) + 1
                    /\ SubSeq(Positions', 1, Len(Positions)) = Positions
                    /\ Last(Positions').close_reason = "Cancelled"
                    /\ Last(Positions').type = state.open_position.type
                    /\ Last(Positions').open_time = state.open_position.time
                    /\ state.last_candle = trace.candle
                    /\ Last(Positions').close_time =
                           trace.candle.time + params.trader.interval
                    /\ Last(Positions').close_fills.price = trace.candle.close
               ELSE Positions' = Positions]_vars
    /\ [](\A k \in 1..(Len(Positions) - 1) : Positions[k].close_reason # "Cancelled")
    /\ [](pc = "done" => ~IsOpen(state))

\* a short position opened on the last candle was cancelled
C3_Witness ==
    /\ pc = "done"
    /\ Len(Positions) >= 2
    /\ Last(Positions).close_reason = "Cancelled"
    /\ Last(Positions).type = "Short"
    /\ Last(Positions).close_time = Last(Positions).open_time

C5_NonNegativeCash ==
    state.quote > -(SCALE \div (10 ^ input.filters.quote_precision))

\* the close reason tick has to record for an open position, "None" to keep it
ExpectedReason(pos, advice, stop_loss, take_profit) ==
    IF pos.type = "Long"
    THEN IF advice \in {"Short", "Liquidate"} THEN "Strategy"
         ELSE IF StopLoss_upside_hit(stop_loss) THEN "StopLoss"
         ELSE IF TakeProfit_upside_hit(take_profit) THEN "TakeProfit"
         ELSE "None"
    ELSE IF advice \in {"Long", "Liquidate"} THEN "Strategy"
         ELSE IF StopLoss_downside_hit(stop_loss) THEN "StopLoss"
         ELSE IF TakeProfit_downside_hit(take_profit) THEN "TakeProfit"
         ELSE "None"

\* C6: a tick closes the open position with the first applicable reason of
\* Strategy, StopLoss, TakeProfit (upside for a long, downside for a short
\* position) and keeps it open when none applies; a tick closes at most once.
C6_ClosePrecedence ==
    [][TickStep =>
         /\ Len(Positions') <= Len(Positions) + 1
         /\ IF IsOpen(state)
            THEN LET reason == ExpectedReason(state.open_position, trace'.advice,
                                   StopLoss_update(state.stop_loss, trace'.candle),
                                   TakeProfit_update(state.take_profit, trace'.candle))
                 IN  IF reason = "None"
                     THEN /\ Positions' = Positions
                          /\ state'.open_position = state.open_position
                     ELSE /\ Len(Positions') = Len(Positions) + 1
                          /\ Last(Positions').close_reason = reason
                          /\ Last(Positions').type = state.open_position.type
                          /\ Last(Positions').open_time = state.open_position.time
            ELSE Positions' = Positions]_vars

\* a long position was closed with reason Strategy in a tick in which its
\* stop-loss was hit as well
C6_Witness ==
    /\ trace.closed
    /\ Last(Positions).type = "Long"
    /\ Last(Positions).close_reason = "Strategy"
    /\ params.stop_loss.kind = "Basic"
    /\ Last(Positions).close_fills.price * RateDen <=
           Last(Positions).open_fills.price * (RateDen - params.stop_loss.up_threshold)

\* C7: a tick opens a long position only with no position open at that point,
\* input.long and effective advice Long, a short one only with no position
\* open, input.short and effective advice Short; so the ledger holds no Long
\* without input.long and no Short without input.short.
C7_OpenGuards ==
    /\ [][(TickStep /\ trace'.attempt # "None") =>
            /\ ~IsOpen(state) \/ trace'.closed
            /\ trace'.advice = trace'.attempt
            /\ trace'.attempt = "Long" => input.long
            /\ trace'.attempt = "Short" => input.short
            /\ ~trace'.err => state'.open_position.type = trace'.attempt]_vars
    /\ [][(TickStep /\ state'.open_position # state.open_position /\ IsOpen(state'))
              => trace'.attempt # "None" /\ ~trace'.err]_vars
    /\ [](\A k \in 1..Len(Positions) :
              /\ Positions[k].type = "Long" => input.long
              /\ Positions[k].type = "Short" => input.short)

\* with short disabled a Short advice closed a long position and opened
\* nothing, and a later Long advice opened the next long position
C7_Witness ==
    /\ input.long /\ ~input.short
    /\ Len(Positions) >= 1
    /\ Positions[1].close_reason = "Strategy"
    /\ IsOpen(state)
    /\ Positions[1].close_time < state.open_position.time

\* C8: when the strategy's advice on a candle equals its advice on the
\* previous candle the effective advice is None and the tick opens nothing.
C8_AdviceTransitions ==
    [][(TickStep /\ i >= 1 /\ state'.strategy = state.strategy) =>
          /\ trace'.advice = "None"
          /\ trace'.attempt = "None"
          /\ num_opened' = num_opened]_vars

\* the strategy keeps advising Long in the tick in which a StopLoss closed the
\* long position, and no position is opened
C8_Witness ==
    /\ Len(Positions) = 1
    /\ Positions[1].type = "Long"
    /\ Positions[1].close_reason = "StopLoss"
    /\ trace.closed
    /\ input.long
    /\ state.strategy = "Long"
    /\ trace.advice = "None"
    /\ ~IsOpen(state)
    /\ pc = "loop"

C10_NoPanic == ~panicked

\* a long and a short position were closed in ticks and a third position
\* was cancelled
C10_Witness ==
    /\ pc = "done"
    /\ Len(Positions) = 3
    /\ \E k \in 1..2 : Positions[k].type = "Long"
    /\ \E k \in 1..2 : Positions[k].type = "Short"
    /\ Positions[3].close_reason = "Cancelled"

\* The engine is not running.
Engine_Idle ==
    /\ params = None
    /\ input = None
    /\ state = None
    /\ summary = None
    /\ i = 0
    /\ pc = "idle"
    /\ panicked = FALSE
    /\ trace = NoTick
    /\ num_opened = 0

\* C11: for an empty candle series trade does not panic and returns a summary
\* with start = 0, end = interval and no positions; for a non-empty series
\* start is the time of the first candle (of the input, and of the first candle
\* the loop takes) and end is the time of the last candle plus the interval
\* (of the input, and of the last candle the loop takes when it takes all).
C11_SummaryBounds ==
    /\ input.candles_len = 0 =>
          /\ summary.start = 0
          /\ summary.end = params.trader.interval
          /\ Positions = <<>>
          /\ ~panicked
          /\ pc \in {"finish", "done"}
    /\ input.candles_len > 0 =>
          /\ summary.start = input.first_time
          /\ summary.end = input.last_time + params.trader.interval
          /\ i = 1 => trace.candle.time = summary.start
          /\ i = input.candles_len =>
                summary.end = trace.candle.time + params.trader.interval

\* A run over a full series that starts late and has a gap has finished.
C11_Witness ==
    /\ pc = "done"
    /\ input.candles_len = MaxCandles
    /\ i = input.candles_len
    /\ input.first_time > 0
    /\ summary.start = input.first_time
    /\ summary.end > summary.start + MaxCandles * params.trader.interval
    /\ summary.end = trace.candle.time + params.trader.interval

\* The closed short positions of the summary.
ClosedShorts == {n \in 1..Len(Positions) : Positions[n].type = "Short"}

\* The number n of interest periods with (n-1)*interval < elapsed <= n*interval.
InterestPeriods(elapsed, interest_interval) ==
    CHOOSE n \in 0..elapsed :
        /\ elapsed <= n * interest_interval
        /\ n > 0 => (n - 1) * interest_interval < elapsed

\* What a closed short position was charged on top of the borrowed size and
\* the fee, in 1/SCALE.
InterestPaid(pos) == pos.close_fills.size - pos.close_fills.fee - pos.borrowed

\* C33 as stated: the interest of every closed short position is exactly
\* borrowed * periods * interest_rate, periods being the ceiling of the time
\* the position was open over interest_interval.
C33_ExactInterest ==
    \A n \in ClosedShorts :
        LET pos == Positions[n]
            periods == InterestPeriods(pos.close_time - pos.open_time,
                                       input.borrow_info.interest_interval)
        IN  InterestPaid(pos) * RateDen
                = pos.borrowed * periods * input.borrow_info.interest_rate

\* C33: the periods charged for a closed short position are the ceiling of
\* (close_time - open_time) / interest_interval, 0 for one cancelled at its
\* open time; the interest is borrowed * periods * interest_rate rounded half
\* up to base_precision, and the close fill size is borrowed + interest + fee,
\* the fee being size * taker rounded the same way.
C33_ShortInterest ==
    \A n \in ClosedShorts :
        LET pos == Positions[n]
            elapsed == pos.close_time - pos.open_time
            periods == InterestPeriods(elapsed, input.borrow_info.interest_interval)
            interest == round_half_up(
                            pos.borrowed * periods * input.borrow_info.interest_rate,
                            SCALE * RateDen, input.filters.base_precision)
        IN  /\ elapsed >= 0
            /\ elapsed = 0 => periods = 0 /\ pos.close_reason = "Cancelled"
            /\ InterestPaid(pos) = interest
            /\ pos.close_fills.fee
                  = round_half_up((pos.borrowed + interest) * input.fees.taker,
                                  SCALE * RateDen, input.filters.base_precision)
            /\ pos.close_fills.size = pos.borrowed + interest + pos.close_fills.fee

\* A short position cancelled at its open time exists.
CancelledAtOpen ==
    \E n \in ClosedShorts :
        /\ Positions[n].close_time = Positions[n].open_time
        /\ InterestPaid(Positions[n]) = 0

\* A short position closed after more than one and less than two interest
\* intervals, charged interest, and one cancelled at its open time.
C33_Witness ==
    /\ CancelledAtOpen
    /\ \E n \in ClosedShorts :
          LET elapsed == Positions[n].close_time - Positions[n].open_time
          IN  /\ elapsed > input.borrow_info.interest_interval
              /\ elapsed < 2 * input.borrow_info.interest_interval
              /\ InterestPaid(Positions[n]) > 0

\* ------------------------------------------------- filters on their own
FilterMins == {0, 10}
FilterMaxs == {0, 20}
FilterSteps == {0, 3, 5}
PriceSizeFilters == [min : FilterMins, max : FilterMaxs, step : FilterSteps]

NoCall == [op |-> "None", result |-> 0]

\* A filter and a non-negative value to round.
FilterInit ==
    /\ Engine_Idle
    /\ Buffer_Idle
    /\ Time_Idle
    /\ Interval_Idle
    /\ Optimize_Idle
    /\ Backtest_Idle
    /\ Client_Idle
    /\ Evaluation_Idle
    /\ DM_Idle
    /\ Chromosome_Idle
    /\ Exchange_Idle
    /\ filter \in PriceSizeFilters
    /\ filter_arg \in 0..MaxSize
    /\ rounded = NoCall

\* filter.round_down(x), and valid and round_down of what it returned.
CallSizeRoundDown ==
    /\ rounded' = LET r == Size_round_down(filter, filter_arg)
                  IN  [op |-> "Size::round_down", result |-> r,
                       valid |-> Size_valid(filter, r),
                       twice |-> Size_round_down(filter, r)]
    /\ UNCHANGED <<filter, filter_arg, engine_vars, buffer_vars, time_vars, interval_vars, optimize_vars,
                 backtest_vars, client_vars, evaluation_vars,
                 dm_vars, chromosome_vars, exchange_vars>>

CallPriceRoundDown ==
    /\ rounded' = [op |-> "Price::round_down", result |-> Price_round_down(filter, filter_arg)]
    /\ UNCHANGED <<filter, filter_arg, engine_vars, buffer_vars, time_vars, interval_vars, optimize_vars,
                 backtest_vars, client_vars, evaluation_vars,
                 dm_vars, chromosome_vars, exchange_vars>>

CallSizeRoundUp ==
    /\ rounded' = [op |-> "Size::round_up", result |-> Size_round_up(filter, filter_arg)]
    /\ UNCHANGED <<filter, filter_arg, engine_vars, buffer_vars, time_vars, interval_vars, optimize_vars,
                 backtest_vars, client_vars, evaluation_vars,
                 dm_vars, chromosome_vars, exchange_vars>>

FilterNext == CallSizeRoundDown \/ CallPriceRoundDown \/ CallSizeRoundUp

FilterSpec == FilterInit /\ [][FilterNext]_vars

\* x clamped to max when max is set
Clamped(f, x) == IF f.max > 0 /\ x > f.max THEN f.max ELSE x

\* C13: Size::round_down(x) and Price::round_down(x) return 0 when x < min;
\* otherwise x is clamped to max only when max > 0, and the result is the
\* largest multiple of step not above it only when step > 0; with
\* min = max = step = 0 the input comes back unchanged.
C13_RoundDown ==
    rounded.op \in {"Size::round_down", "Price::round_down"} =>
        LET r == rounded.result
            c == Clamped(filter, filter_arg)
        IN  /\ filter_arg < filter.min => r = 0
            /\ filter_arg >= filter.min /\ filter.step > 0 =>
                  /\ r % filter.step = 0
                  /\ r <= c
                  /\ c < r + filter.step
            /\ filter_arg >= filter.min /\ filter.step = 0 => r = c
            /\ filter.min = 0 /\ filter.max = 0 /\ filter.step = 0 => r = filter_arg

\* A size above max, off the step grid, was clamped and floored.
C13_Witness ==
    /\ rounded.op = "Size::round_down"
    /\ filter.max > 0 /\ filter_arg > filter.max
    /\ filter.step > 0 /\ filter.max % filter.step # 0
    /\ filter_arg >= filter.min /\ filter.min > 0
    /\ rounded.result > 0 /\ rounded.result < filter.max

\* C14: Size::round_up(x) returns 0 when x < min; otherwise x is clamped to
\* max only when max > 0, and the result is the smallest multiple of step not
\* below it only when step > 0; a zero max or step constrains nothing, so
\* with min = max = step = 0 the input comes back unchanged.
C14_RoundUp ==
    rounded.op = "Size::round_up" =>
        LET r == rounded.result
            c == Clamped(filter, filter_arg)
        IN  /\ ~r.nan
            /\ filter_arg < filter.min => r.v = 0
            /\ filter_arg >= filter.min /\ filter.step > 0 =>
                  /\ r.v % filter.step = 0
                  /\ c <= r.v
                  /\ r.v < c + filter.step
            /\ filter_arg >= filter.min /\ filter.step = 0 => r.v = c
            /\ filter.min = 0 /\ filter.max = 0 /\ filter.step = 0 =>
                  r.v = filter_arg

\* C38: for a filter with min <= max and step > 0, what Size::round_down
\* returns is 0 or a size the filter accepts (at least min, at most max,
\* valid), and rounding it down again returns it unchanged.
C38_RoundDownValid ==
    (rounded.op = "Size::round_down" /\ filter.min <= filter.max /\ filter.step > 0) =>
        LET r == rounded.result
        IN  /\ r = 0 \/ (r >= filter.min /\ r <= filter.max /\ rounded.valid)
            /\ rounded.twice = r

\* ------------------------------------------ a BufferedCandle on its own
BufferIntervals == {0, 1, 2}
BufferBufferIntervals == {None, Some(1), Some(2), Some(3)}
\* open, high, low, close, volume of the candles of test_buffered_simple
CandleShapes ==
    {[open |-> 2, high |-> 4, low |-> 1, close |-> 3, volume |-> 10],
     [open |-> 4, high |-> 8, low |-> 2, close |-> 6, volume |-> 20]}

\* BufferedCandle::new was called: a BufferedCandle exists unless it panicked.
\* A buffer interval above the interval is a multiple of it.
BufferInit ==
    /\ Engine_Idle
    /\ Filter_Idle
    /\ Time_Idle
    /\ Interval_Idle
    /\ Optimize_Idle
    /\ Backtest_Idle
    /\ Client_Idle
    /\ Evaluation_Idle
    /\ DM_Idle
    /\ Chromosome_Idle
    /\ Exchange_Idle
    /\ \E interval \in BufferIntervals, buffer_interval \in BufferBufferIntervals :
          /\ BufferedCandle_new(interval, buffer_interval).enabled
                 => buffer_interval.v % interval = 0
          /\ buffered = BufferedCandle_new(interval, buffer_interval)
          /\ buffer_args = [interval |-> interval, buffer_interval |-> buffer_interval]
    /\ buffer_sources = [pending |-> {}, emitted |-> <<>>]
    /\ fed = <<>>
    /\ emitted = <<>>
    /\ buffer_panicked = FALSE

\* Candles come in time order, on the grid of the interval, with gaps.
FedTimes ==
    IF fed = <<>>
    THEN {g * buffered.interval : g \in 0..MaxStride}
    ELSE {Last(fed).time + g * buffered.interval : g \in 1..MaxStride}

\* One call of buffered.buffer(candle).
Buffer ==
    /\ ~buffered.panic
    /\ ~buffer_panicked
    /\ Len(fed) < MaxFed
    /\ \E time \in FedTimes, shape \in CandleShapes :
          LET candle == [time |-> time, open |-> shape.open, high |-> shape.high,
                         low |-> shape.low, close |-> shape.close,
                         volume |-> shape.volume]
              r == BufferedCandle_buffer(buffered, candle)
          IN  /\ buffered' = r.self
              /\ fed' = Append(fed, candle)
              /\ emitted' = IF r.ret # None THEN Append(emitted, r.ret) ELSE emitted
              /\ buffer_panicked' = r.panic
              /\ buffer_sources' =
                    LET k == Len(fed) + 1
                        held == buffer_sources.pending
                    IN  IF r.panic THEN buffer_sources
                        ELSE IF r.ret = None
                        THEN [buffer_sources EXCEPT !.pending = held \cup {k}]
                        ELSE IF r.self.buffer_candle = None
                        THEN [pending |-> {},
                              emitted |-> Append(buffer_sources.emitted, held \cup {k})]
                        ELSE [pending |-> {k},
                              emitted |-> Append(buffer_sources.emitted, held)]
    /\ UNCHANGED buffer_args
    /\ UNCHANGED <<engine_vars, filter_vars, time_vars, interval_vars, optimize_vars,
                 backtest_vars, client_vars, evaluation_vars,
                 dm_vars, chromosome_vars, exchange_vars>>

BufferNext == Buffer

BufferSpec == BufferInit /\ [][BufferNext]_vars

RECURSIVE SumVolume(_)
SumVolume(candles) ==
    IF candles = <<>> THEN 0
    ELSE Head(candles).volume + SumVolume(Tail(candles))

\* Indices of the inputs in the bucket of an emitted candle
Bucket(e) ==
    {k \in 1..Len(fed) :
        Timestamp_floor(fed[k].time, buffered.buffer_interval)
            = Timestamp_floor(e.time, buffered.buffer_interval)}

\* No volume is lost or made: inputs = emitted + what is still buffered.
VolumeConserved ==
    SumVolume(fed) = SumVolume(emitted)
        + (IF buffered.buffer_candle # None THEN buffered.buffer_candle.volume ELSE 0)

\* An emitted candle aggregates exactly the inputs of its bucket.
BucketAggregated(e) ==
    LET b == Bucket(e)
    IN  /\ b # {}
        /\ \A k \in b : fed[k].high <= e.high /\ e.low <= fed[k].low
        /\ \E k \in b : fed[k].high = e.high
        /\ \E k \in b : fed[k].low = e.low
        /\ \E k \in b : (\A m \in b : m <= k) /\ e.close = fed[k].close
        /\ \E k \in b : (\A m \in b : k <= m) /\ e.open = fed[k].open

\* C15: for an enabled BufferedCandle and any sequence of input candles, the
\* volume of the inputs equals the volume of the emitted candles (plus the
\* one still buffered), and the high, low and close of every emitted candle
\* are the max high, min low and last close of the inputs within its bucket
\* (open is the open of the first of them).
C15_BufferConservation ==
    buffered.enabled /\ ~buffer_panicked =>
        /\ VolumeConserved
        /\ \A n \in 1..Len(emitted) : BucketAggregated(emitted[n])

\* The candle lies at or beyond the end of the bucket now buffered and is
\* the last slot of its own bucket.
TwoBucketsDue(candle) ==
    /\ buffered.enabled
    /\ buffered.buffer_candle # None
    /\ candle.time >= Timestamp_floor(buffered.buffer_candle.time, buffered.buffer_interval)
                          + buffered.buffer_interval
    /\ Timestamp_floor(candle.time, buffered.buffer_interval) + buffered.buffer_interval
          = candle.time + buffered.interval

BucketStart(time) == Timestamp_floor(time, buffered.buffer_interval)

\* The step hands a candle at or beyond the end of the pending bucket to an
\* enabled BufferedCandle.
BeyondPending ==
    /\ fed' # fed
    /\ buffered.enabled
    /\ buffered.buffer_candle # None
    /\ Last(fed').time >= BucketStart(buffered.buffer_candle.time)
                              + buffered.buffer_interval

\* The step hands an enabled BufferedCandle its first candle, the last slot of
\* its bucket.
FirstIsLast ==
    /\ fed = <<>>
    /\ fed' # fed
    /\ buffered.enabled
    /\ (Last(fed').time + buffered.interval) % buffered.buffer_interval = 0

\* C34: an enabled BufferedCandle emits the pending bucket as soon as a candle
\* at or beyond the end of that bucket arrives, and starts a new bucket with
\* that candle; a first candle that is the last slot of its bucket is emitted
\* at once with its time floored to the bucket start; no input is reported in
\* more than one emitted candle.
C34_GapEmission ==
    [][/\ BeyondPending =>
              /\ emitted' = Append(emitted, buffered.buffer_candle)
              /\ buffered'.buffer_candle # None
              /\ [buffered'.buffer_candle EXCEPT !.time = 0]
                    = [Last(fed') EXCEPT !.time = 0]
              /\ BucketStart(buffered'.buffer_candle.time) = BucketStart(Last(fed').time)
       /\ FirstIsLast =>
              /\ emitted' = <<[Last(fed') EXCEPT !.time = BucketStart(@)]>>
              /\ buffered'.buffer_candle = None
       /\ (fed' # fed /\ buffered.enabled /\ ~buffer_panicked') => VolumeConserved'
      ]_vars

\* C35: BufferedCandle::new panics for interval 0 and for an interval above
\* the buffer interval; without a buffer interval, or with one equal to the
\* interval, the BufferedCandle is disabled: every call of buffer returned its
\* candle as it was and nothing is buffered.
C35_Disabled ==
    LET interval == buffer_args.interval
        buffer_interval == buffer_args.buffer_interval
    IN  /\ interval = 0 => buffered.panic
        /\ (buffer_interval # None /\ interval > buffer_interval.v) => buffered.panic
        /\ (interval # 0 /\ (buffer_interval = None \/ buffer_interval.v = interval)) =>
              /\ ~buffered.panic
              /\ ~buffered.enabled
              /\ buffered.buffer_candle = None
              /\ emitted = fed
              /\ ~buffer_panicked

\* A BufferedCandle with equal intervals has returned two candles a gap apart.
C35_Witness ==
    /\ buffer_args.buffer_interval = Some(buffer_args.interval)
    /\ ~buffered.enabled
    /\ Len(fed) >= 2
    /\ fed[2].time > fed[1].time + buffered.interval
    /\ emitted = fed

\* C36: every candle an enabled BufferedCandle emitted has a time that is a
\* multiple of the buffer interval.
C36_EmittedAligned ==
    buffered.enabled =>
        \A n \in 1..Len(emitted) : emitted[n].time = BucketStart(emitted[n].time)

\* C37: every candle an enabled BufferedCandle emitted holds inputs of one
\* bucket only.
C37_SingleBucket ==
    buffered.enabled =>
        \A n \in 1..Len(emitted) : \A j, k \in buffer_sources.emitted[n] :
            BucketStart(fed[j].time) = BucketStart(fed[k].time)

\* --------------------------------------------- timestamps on their own
\* 2019-12-20, in days since 1970-01-01: the days from here on hold a year
\* end, month ends, week starts and the dates of test_ceil_timestamp
FirstDay == 18250
\* times of day: midnight, one unit later, noon
DayOffsets == {0, 1, DAY_MS \div 2}
Timestamps == {(FirstDay + d) * DAY_MS + o : d \in 0..MaxDays, o \in DayOffsets}
\* the supported intervals: below a week, a week, a month
AlignIntervals == {1, DAY_MS \div 2, DAY_MS, 3 * DAY_MS, WEEK_MS, MONTH_MS}

TimeInit ==
    /\ Engine_Idle
    /\ Filter_Idle
    /\ Buffer_Idle
    /\ Interval_Idle
    /\ Optimize_Idle
    /\ Backtest_Idle
    /\ Client_Idle
    /\ Evaluation_Idle
    /\ DM_Idle
    /\ Chromosome_Idle
    /\ Exchange_Idle
    /\ ts \in Timestamps
    /\ ts_interval \in AlignIntervals
    /\ aligned = NoAlign

\* ts.floor(i), and the floor of the result
CallFloor ==
    /\ aligned' = [op |-> "Timestamp::floor", panic |-> FALSE,
                   once |-> Timestamp_floor(ts, ts_interval),
                   twice |-> Timestamp_floor(Timestamp_floor(ts, ts_interval), ts_interval)]
    /\ UNCHANGED <<ts, ts_interval, engine_vars, filter_vars, buffer_vars, interval_vars, optimize_vars,
                 backtest_vars, client_vars, evaluation_vars,
                 dm_vars, chromosome_vars, exchange_vars>>

\* ts.ceil(i), and the ceil of the result
CallCeil ==
    /\ aligned' = [op |-> "Timestamp::ceil", panic |-> FALSE,
                   once |-> Timestamp_ceil(ts, ts_interval),
                   twice |-> Timestamp_ceil(Timestamp_ceil(ts, ts_interval), ts_interval)]
    /\ UNCHANGED <<ts, ts_interval, engine_vars, filter_vars, buffer_vars, interval_vars, optimize_vars,
                 backtest_vars, client_vars, evaluation_vars,
                 dm_vars, chromosome_vars, exchange_vars>>

\* floor_timestamp(ts, i) of the time module
CallFloorTimestamp ==
    /\ LET r == floor_timestamp(ts, ts_interval)
       IN  aligned' = [op |-> "floor_timestamp", panic |-> r.panic,
                       once |-> r.v, twice |-> r.v]
    /\ UNCHANGED <<ts, ts_interval, engine_vars, filter_vars, buffer_vars, interval_vars, optimize_vars,
                 backtest_vars, client_vars, evaluation_vars,
                 dm_vars, chromosome_vars, exchange_vars>>

\* ceil_timestamp(ts, i) of the time module
CallCeilTimestamp ==
    /\ LET r == ceil_timestamp(ts, ts_interval)
       IN  aligned' = [op |-> "ceil_timestamp", panic |-> r.panic,
                       once |-> r.v, twice |-> r.v]
    /\ UNCHANGED <<ts, ts_interval, engine_vars, filter_vars, buffer_vars, interval_vars, optimize_vars,
                 backtest_vars, client_vars, evaluation_vars,
                 dm_vars, chromosome_vars, exchange_vars>>

TimeNext == CallFloor \/ CallCeil \/ CallFloorTimestamp \/ CallCeilTimestamp

TimeSpec == TimeInit /\ [][TimeNext]_vars

\* C17: for every timestamp t and every supported interval i,
\* floor(floor(t, i), i) = floor(t, i), ceil(ceil(t, i), i) = ceil(t, i) and
\* floor(t, i) <= t <= ceil(t, i).
C17_AlignIdempotent ==
    /\ aligned.op = "Timestamp::floor" =>
          aligned.twice = aligned.once /\ aligned.once <= ts
    /\ aligned.op = "Timestamp::ceil" =>
          aligned.twice = aligned.once /\ ts <= aligned.once

\* r is 00:00:00 UTC on the first day of the given calendar month
FirstOfMonth(r, date) ==
    /\ r % DAY_MS = 0
    /\ to_calendar_date(r \div DAY_MS) = date
    /\ to_calendar_date(r \div DAY_MS - 1) # date

\* the calendar month after the given one
FollowingMonth(date) ==
    IF date.month = 12
    THEN [year |-> date.year + 1, month |-> 1]
    ELSE [year |-> date.year, month |-> date.month + 1]

\* C18: month alignment is calendar-based: floor(t, MONTH_MS) is 00:00:00 UTC
\* on the first day of the calendar month of t and ceil(t, MONTH_MS) is
\* 00:00:00 UTC on the first day of the following calendar month, January of
\* the next year when t is in December, for Timestamp::ceil and for
\* ceil_timestamp of the time module alike.
C18_MonthAlignment ==
    ts_interval = MONTH_MS =>
        LET date == to_calendar_date(ts \div DAY_MS)
        IN  /\ aligned.op \in {"Timestamp::floor", "floor_timestamp"} =>
                  ~aligned.panic /\ FirstOfMonth(aligned.once, date)
            /\ aligned.op \in {"Timestamp::ceil", "ceil_timestamp"} =>
                  ~aligned.panic /\ FirstOfMonth(aligned.once, FollowingMonth(date))

\* ---------------------------------------------- intervals on their own
\* counts of y, M, w, d, h, m, s and ms an input interval is summed from
IntervalInputs ==
    {Interval(y * 31556952 + mo * 2629746 + w * 604800 + d * 86400
                  + h * 3600 + mi * 60 + sec, ms) :
        y \in {0, 1}, mo \in {0, 1, 11}, w \in {0, 4}, d \in {0, 2},
        h \in {0, 23}, mi \in {0, 1}, sec \in {0, 1, 59}, ms \in {0, 1, 234}}

IntervalInit ==
    /\ Engine_Idle
    /\ Filter_Idle
    /\ Buffer_Idle
    /\ Time_Idle
    /\ Optimize_Idle
    /\ Backtest_Idle
    /\ Client_Idle
    /\ Evaluation_Idle
    /\ DM_Idle
    /\ Chromosome_Idle
    /\ Exchange_Idle
    /\ iv \in IntervalInputs
    /\ iv_repr = <<>>
    /\ iv_parsed = NoParse

\* iv.to_string()
Format ==
    /\ iv_repr' = Interval_fmt(iv)
    /\ UNCHANGED <<iv, iv_parsed, engine_vars, filter_vars, buffer_vars, time_vars, optimize_vars,
                 backtest_vars, client_vars, evaluation_vars,
                 dm_vars, chromosome_vars, exchange_vars>>

\* Interval::from_str of the string
Parse ==
    /\ iv_repr # <<>>
    /\ LET r == Interval_from_str(iv_repr)
       IN  iv_parsed' = [done |-> TRUE, panic |-> r.panic, v |-> r.v]
    /\ UNCHANGED <<iv, iv_repr, engine_vars, filter_vars, buffer_vars, time_vars, optimize_vars,
                 backtest_vars, client_vars, evaluation_vars,
                 dm_vars, chromosome_vars, exchange_vars>>

IntervalNext == Format \/ Parse

IntervalSpec == IntervalInit /\ [][IntervalNext]_vars

\* a < b on the limbs
IntervalLess(a, b) == a.s < b.s \/ (a.s = b.s /\ a.ms < b.ms)

\* index in INTERVAL_FACTORS of the unit of a group, 0 if it has none
UnitIndex(group) ==
    LET unit == SubSeq(group, run_length(group, TRUE) + 1, Len(group))
        known == {k \in 1..Len(INTERVAL_FACTORS) : INTERVAL_FACTORS[k].letter = unit}
    IN  IF known = {} THEN 0 ELSE CHOOSE k \in known : TRUE

\* count of a group
GroupCount(group) == parse_u64(SubSeq(group, 1, run_length(group, TRUE)))

\* The string is count-unit groups over y, M, w, d, h, m, s, ms in
\* descending order with positive counts, each count as large as it can be:
\* what follows a group is less than one unit of the group.
GreedyGroups(str) ==
    LET groups == find_iter(str)
    IN  /\ groups # <<>>
        /\ \A k \in 1..Len(groups) :
              /\ UnitIndex(groups[k]) > 0
              /\ GroupCount(groups[k]) > 0
              /\ k > 1 => UnitIndex(groups[k - 1]) < UnitIndex(groups[k])
              /\ IntervalLess(fold_groups(SubSeq(groups, k + 1, Len(groups)),
                                          Interval(0, 0)).v,
                              INTERVAL_FACTORS[UnitIndex(groups[k])].factor)

\* C19: interval formatting and parsing round-trip: parse(format(i)) = i for
\* every interval i, 0 (formatted "0ms") included; format decomposes i
\* greedily over y, M, w, d, h, m, s, ms in descending order and emits only
\* units with a positive count, and parse sums count * unit over the groups.
C19_IntervalRoundTrip ==
    /\ iv_repr # <<>> =>
          IF iv = Interval(0, 0) THEN iv_repr = <<"0", "m", "s">>
          ELSE GreedyGroups(iv_repr)
    /\ iv_parsed.done => ~iv_parsed.panic /\ iv_parsed.v = iv

\* An interval of several units, a year and a month among them, came back.
C19_Witness ==
    /\ iv_parsed.done
    /\ iv_parsed.v = iv
    /\ Len(find_iter(iv_repr)) >= 4
    /\ UnitIndex(find_iter(iv_repr)[1]) = 1
    /\ UnitIndex(find_iter(iv_repr)[2]) = 2
    /\ iv.ms > 0

\* ------------------------------------------------ POST /optimize on its own
HallOfFameSizes == {1, 2}
PopulationSize == 2
\* fitness of an evaluated individual: 1.0, 2.0, 3.0 or NaN
Fitnesses == {NaN, F64(10), F64(20), F64(30)}

\* post, line 94: the request is in, optimize has not yet run a generation.
OptimizeInit ==
    /\ Engine_Idle
    /\ Filter_Idle
    /\ Buffer_Idle
    /\ Time_Idle
    /\ Interval_Idle
    /\ Backtest_Idle
    /\ Client_Idle
    /\ Evaluation_Idle
    /\ DM_Idle
    /\ Chromosome_Idle
    /\ Exchange_Idle
    /\ args \in [hall_of_fame_size : HallOfFameSizes, generations : 0..MaxGenerations]
    /\ evolution = <<>>
    /\ best_fitnesses = [k \in 1..args.hall_of_fame_size |-> NaN]
    /\ gen_stats = <<>>
    /\ filtered = 0
    /\ failure = None
    /\ response = None

\* One generation of optimize: the population is evaluated and the hall of
\* fame updated.
Evolve ==
    /\ response = None
    /\ Len(evolution) < args.generations
    /\ \E evaluated \in [1..PopulationSize -> Fitnesses] :
          LET previous == IF evolution = <<>> THEN <<>> ELSE Last(evolution)
          IN  evolution' = Append(evolution,
                  hall_of_fame_update(previous, evaluated, args.hall_of_fame_size))
    /\ UNCHANGED <<args, best_fitnesses, gen_stats, filtered, failure, response>>
    /\ UNCHANGED <<engine_vars, filter_vars, buffer_vars, time_vars, interval_vars,
                 backtest_vars, client_vars, evaluation_vars,
                 dm_vars, chromosome_vars, exchange_vars>>

\* The filter of post collecting what passes in front of what passed before.
FilterGeneration_reversed ==
    /\ response = None
    /\ Len(evolution) = args.generations
    /\ filtered < Len(evolution)
    /\ LET r == filter_generation(evolution[filtered + 1], best_fitnesses)
       IN  /\ best_fitnesses' = r.best_fitnesses
           /\ gen_stats' = IF r.pass
                            THEN <<[nr |-> Len(gen_stats), gen |-> filtered + 1,
                                    hall_of_fame |-> evolution[filtered + 1]]>>
                                     \o gen_stats
                            ELSE gen_stats
    /\ filtered' = filtered + 1
    /\ UNCHANGED <<args, evolution, failure, response>>
    /\ UNCHANGED <<engine_vars, filter_vars, buffer_vars, time_vars, interval_vars,
                 backtest_vars, client_vars, evaluation_vars,
                 dm_vars, chromosome_vars, exchange_vars>>

\* The filter of post on the next generation; enumerate numbers what passes.
FilterGeneration ==
    /\ response = None
    /\ Len(evolution) = args.generations
    /\ filtered < Len(evolution)
    /\ LET r == filter_generation(evolution[filtered + 1], best_fitnesses)
       IN  /\ best_fitnesses' = r.best_fitnesses
           /\ gen_stats' = IF r.pass
                            THEN Append(gen_stats,
                                        [nr |-> Len(gen_stats), gen |-> filtered + 1,
                                         hall_of_fame |-> evolution[filtered + 1]])
                            ELSE gen_stats
    /\ filtered' = filtered + 1
    /\ UNCHANGED <<args, evolution, failure, response>>
    /\ UNCHANGED <<engine_vars, filter_vars, buffer_vars, time_vars, interval_vars,
                 backtest_vars, client_vars, evaluation_vars,
                 dm_vars, chromosome_vars, exchange_vars>>

\* The error texts of the upstream fetches.
ErrorTexts == {"error sending request", "HTTP status client error", "error decoding response body"}

\* GenerationOutput of each generation that passed
GenerationOutputs == [n \in 1..Len(gen_stats) |->
                         [nr |-> gen_stats[n].nr,
                          hall_of_fame |-> gen_stats[n].hall_of_fame]]

\* post, lines 90-92: optimize fails on an upstream fetch of
\* BasicEvaluation::new, before any generation.
OptimizeFails ==
    /\ response = None
    /\ evolution = <<>>
    /\ filtered = 0
    /\ \E err \in ErrorTexts :
          /\ failure' = Some(err)
          /\ response' = StatusCode_into_response(500)
    /\ UNCHANGED <<args, evolution, best_fitnesses, gen_stats, filtered>>
    /\ UNCHANGED <<engine_vars, filter_vars, buffer_vars, time_vars, interval_vars,
                 backtest_vars, client_vars, evaluation_vars,
                 dm_vars, chromosome_vars, exchange_vars>>

\* post, lines 111-121: the backtests of the generations that passed are
\* joined; one of them may have failed on an upstream fetch.
JoinGenStats ==
    /\ response = None
    /\ Len(evolution) = args.generations
    /\ filtered = Len(evolution)
    /\ \/ /\ response' = Ok_into_response([generations |-> GenerationOutputs])
          /\ UNCHANGED failure
       \/ /\ gen_stats # <<>>
          /\ \E err \in ErrorTexts :
                /\ failure' = Some(err)
                /\ response' = StatusCode_into_response(500)
    /\ UNCHANGED <<args, evolution, best_fitnesses, gen_stats, filtered>>
    /\ UNCHANGED <<engine_vars, filter_vars, buffer_vars, time_vars, interval_vars,
                 backtest_vars, client_vars, evaluation_vars,
                 dm_vars, chromosome_vars, exchange_vars>>

OptimizeNext == Evolve \/ FilterGeneration \/ OptimizeFails \/ JoinGenStats

OptimizeSpec == OptimizeInit /\ [][OptimizeNext]_vars

\* Generation g is strictly better at some rank than every earlier generation
\* was at that rank (every rank of the first generation is).
Improved(g) ==
    \E k \in 1..Len(evolution[g]) :
        \A e \in 1..(g - 1) : f64_gt(evolution[g][k], evolution[e][k])

\* C20: POST /optimize emits a generation if and only if at some rank k its
\* hall_of_fame[k].fitness is strictly greater than the best fitness seen at
\* rank k in all earlier generations (the first generation is always
\* emitted); generations are emitted in their original order.
C20_EmitsImprovements ==
    /\ \A g \in 1..filtered :
          (\E n \in 1..Len(gen_stats) : gen_stats[n].gen = g) <=> Improved(g)
    /\ \A n \in 2..Len(gen_stats) : gen_stats[n - 1].gen < gen_stats[n].gen

\* a is not better than b, a NaN fitness never being better than another
NotBetter(a, b) == a.nan \/ (~b.nan /\ a.v <= b.v)

\* C21: for any rank k, hall_of_fame[k].fitness is non-decreasing across the
\* successive generations emitted by POST /optimize: a rank held by an
\* emitted generation is held by every later emitted generation, with a
\* fitness that is not worse.
C21_MonotoneHallOfFame ==
    \A n \in 1..Len(gen_stats) : \A m \in (n + 1)..Len(gen_stats) :
        \A k \in 1..Len(gen_stats[n].hall_of_fame) :
            /\ k <= Len(gen_stats[m].hall_of_fame)
            /\ NotBetter(gen_stats[n].hall_of_fame[k], gen_stats[m].hall_of_fame[k])

\* Three generations were emitted; rank 1 rose between the first two and
\* rank 2 alone between the last two.
C21_Witness ==
    /\ Len(gen_stats) = 3
    /\ args.hall_of_fame_size = 2
    /\ f64_gt(gen_stats[2].hall_of_fame[1], gen_stats[1].hall_of_fame[1])
    /\ gen_stats[3].hall_of_fame[1] = gen_stats[2].hall_of_fame[1]
    /\ f64_gt(gen_stats[3].hall_of_fame[2], gen_stats[2].hall_of_fame[2])

\* Rank k of generation g holds a fitness that is a number and is better than
\* what rank k held in every earlier generation.
ImprovedAt(g, k) ==
    /\ ~evolution[g][k].nan
    /\ \A e \in 1..(g - 1) :
          k > Len(evolution[e]) \/ evolution[e][k].nan
              \/ f64_gt(evolution[g][k], evolution[e][k])

\* C22: a NaN fitness is never better: a hall-of-fame individual whose
\* fitness is NaN never counts as an improvement at its rank, so every
\* generation emitted after the first one holds at some rank a fitness that
\* is a number and improves on that rank.
C22_NaNNeverBetter ==
    \A n \in 1..Len(gen_stats) :
        gen_stats[n].gen > 1 =>
            \E k \in 1..Len(gen_stats[n].hall_of_fame) :
                ImprovedAt(gen_stats[n].gen, k)

\* ------------------------------------------------ POST /backtest on its own
\* A task of try_join_all: not yet complete, complete with Ok (the value
\* left out), complete with Err(err)
Pending == [state |-> "Pending"]
Done == [state |-> "Ok"]

AllOk(task_states) == \A n \in 1..Len(task_states) : task_states[n] = Done

\* post of backtest.rs, lines 38-46: the request is in, one backtest task
\* for each symbol.
BacktestInit ==
    /\ Engine_Idle
    /\ Filter_Idle
    /\ Buffer_Idle
    /\ Time_Idle
    /\ Interval_Idle
    /\ Optimize_Idle
    /\ Client_Idle
    /\ Evaluation_Idle
    /\ DM_Idle
    /\ Chromosome_Idle
    /\ Exchange_Idle
    /\ backtest_args \in [symbols : 0..MaxSymbols]
    /\ symbol_summaries = [n \in 1..backtest_args.symbols |-> Pending]
    /\ symbol_stats = None
    /\ backtest_response = None

\* One task of a try_join_all of post completes; the first Err ends the join
\* and `.map_err(Error::from)?` returns it.
CompleteTask(task_states, n, outcome) ==
    [states |-> [task_states EXCEPT ![n] = outcome],
     response |-> IF outcome = Done THEN None
                  ELSE Error_into_response(outcome.error)]

TaskOutcomes == {Done} \cup {Err(err) : err \in ErrorTexts}

\* post, lines 42-48: backtest of one symbol completes.
BacktestSymbol ==
    /\ backtest_response = None
    /\ symbol_stats = None
    /\ \E n \in 1..Len(symbol_summaries) : \E outcome \in TaskOutcomes :
          /\ symbol_summaries[n] = Pending
          /\ LET r == CompleteTask(symbol_summaries, n, outcome)
             IN  /\ symbol_summaries' = r.states
                 /\ backtest_response' = r.response
    /\ UNCHANGED <<backtest_args, symbol_stats>>
    /\ UNCHANGED <<engine_vars, filter_vars, buffer_vars, time_vars, interval_vars,
                 optimize_vars, client_vars, evaluation_vars,
                 dm_vars, chromosome_vars, exchange_vars>>

\* post, lines 46-53: all summaries are in, one get_stats task for each.
JoinSummaries ==
    /\ backtest_response = None
    /\ symbol_stats = None
    /\ AllOk(symbol_summaries)
    /\ symbol_stats' = Some([n \in 1..Len(symbol_summaries) |-> Pending])
    /\ UNCHANGED <<backtest_args, symbol_summaries, backtest_response>>
    /\ UNCHANGED <<engine_vars, filter_vars, buffer_vars, time_vars, interval_vars,
                 optimize_vars, client_vars, evaluation_vars,
                 dm_vars, chromosome_vars, exchange_vars>>

\* post, lines 50-56: get_stats of one symbol completes.
GetStats ==
    /\ backtest_response = None
    /\ symbol_stats # None
    /\ \E n \in 1..Len(symbol_stats.v) : \E outcome \in TaskOutcomes :
          /\ symbol_stats.v[n] = Pending
          /\ LET r == CompleteTask(symbol_stats.v, n, outcome)
             IN  /\ symbol_stats' = Some(r.states)
                 /\ backtest_response' = r.response
    /\ UNCHANGED <<backtest_args, symbol_summaries>>
    /\ UNCHANGED <<engine_vars, filter_vars, buffer_vars, time_vars, interval_vars,
                 optimize_vars, client_vars, evaluation_vars,
                 dm_vars, chromosome_vars, exchange_vars>>

\* post, lines 54-60: all statistics are in.
JoinStats ==
    /\ backtest_response = None
    /\ symbol_stats # None
    /\ AllOk(symbol_stats.v)
    /\ backtest_response' = Ok_into_response([symbol_stats |-> symbol_stats.v])
    /\ UNCHANGED <<backtest_args, symbol_summaries, symbol_stats>>
    /\ UNCHANGED <<engine_vars, filter_vars, buffer_vars, time_vars, interval_vars,
                 optimize_vars, client_vars, evaluation_vars,
                 dm_vars, chromosome_vars, exchange_vars>>

BacktestNext == BacktestSymbol \/ JoinSummaries \/ GetStats \/ JoinStats

BacktestSpec == BacktestInit /\ [][BacktestNext]_vars

\* The errors the tasks of a join completed with
Errors(task_states) ==
    {task_states[n].error :
        n \in {m \in 1..Len(task_states) : task_states[m].state = "Err"}}

\* POST /backtest answers a failure with status 500 and {"message": text}.
BacktestServerError ==
    LET errors == Errors(symbol_summaries)
                      \cup (IF symbol_stats = None THEN {} ELSE Errors(symbol_stats.v))
    IN  /\ errors # {} =>
              \E err \in errors : backtest_response = Error_into_response(err)
        /\ backtest_response # None /\ backtest_response.status = 200 => errors = {}

\* POST /optimize answers a failure with status 500 and {"message": text}.
OptimizeServerError ==
    /\ failure # None => response = Error_into_response(failure.v)
    /\ response # None /\ response.status = 200 => failure = None

\* C23: any server-side failure while handling POST /backtest or POST
\* /optimize (an upstream fetch error in the optimisation phase or in the
\* per-generation backtest phase) produces an HTTP 500 response whose body is
\* the JSON object {"message": ...} carrying the error text, and no partial
\* result is returned.
C23_ServerErrorBody ==
    /\ BacktestServerError
    /\ OptimizeServerError

\* ------------------------------------------- error_for_juno_status on its own
StatusCodes == {200, 204, 301, 400, 404, 422, 499, 500, 503}
Urls == {"/candles", "/prices"}
\* bodies: {"message": ..}, a JSON object without message, no JSON at all
Bodies == {Json([message |-> "unknown exchange"]), Json([message |-> ""]),
           Json([detail |-> "unknown exchange"]), EmptyBody}

\* send() has returned a response of the data service.
ClientInit ==
    /\ Engine_Idle
    /\ Filter_Idle
    /\ Buffer_Idle
    /\ Time_Idle
    /\ Interval_Idle
    /\ Optimize_Idle
    /\ Backtest_Idle
    /\ Evaluation_Idle
    /\ DM_Idle
    /\ Chromosome_Idle
    /\ Exchange_Idle
    /\ upstream \in [status : StatusCodes, url : Urls, body : Bodies]
    /\ surfaced = None

CallErrorForJunoStatus ==
    /\ surfaced = None
    /\ surfaced' = error_for_juno_status(upstream)
    /\ UNCHANGED upstream
    /\ UNCHANGED <<engine_vars, filter_vars, buffer_vars, time_vars, interval_vars,
                 optimize_vars, backtest_vars, evaluation_vars,
                 dm_vars, chromosome_vars, exchange_vars>>

ClientNext == CallErrorForJunoStatus

ClientSpec == ClientInit /\ [][ClientNext]_vars

\* The body is what the data service sends with a 4xx: {"message": string}
CarriesMessage(body) == body.type = "Json" /\ "message" \in DOMAIN body.value

EvaluationAggregation == {"Linear", "Log10", "Log10Factored"}
Chromosomes == {1, 2}
PopulationSizes == {1, 2}

\* statistics of evaluate_symbol on which the aggregation is exact:
\* 0.4 and 10.0, -1.0 and 9.0, -0.1 and 0.9
StatisticValues(aggregation) ==
    CASE aggregation = "Linear" -> {4, 100}
      [] aggregation = "Log10" -> {-10, 90}
      [] aggregation = "Log10Factored" -> {-1, 9}

SymbolCtxs(aggregation) ==
    [symbol : {"eth-btc"}, statistic : [Chromosomes -> StatisticValues(aggregation)]]

\* evaluate is entered: one closure run for each individual, none started;
\* an individual's fitness is NaN until evaluated.
EvaluationInit ==
    /\ Engine_Idle
    /\ Filter_Idle
    /\ Buffer_Idle
    /\ Time_Idle
    /\ Interval_Idle
    /\ Optimize_Idle
    /\ Backtest_Idle
    /\ Client_Idle
    /\ DM_Idle
    /\ Chromosome_Idle
    /\ Exchange_Idle
    /\ \E aggregation \in EvaluationAggregation : \E len \in 0..MaxCtxs :
          evaluation \in [symbol_ctxs : [1..len -> SymbolCtxs(aggregation)],
                          evaluation_aggregation : {aggregation}]
    /\ \E size \in PopulationSizes :
          population \in [1..size -> [chromosome : Chromosomes, fitness : {NaN}]]
    /\ tasks = [n \in 1..Len(population) |-> [folded |-> 0, acc |-> 0, done |-> FALSE]]

\* The closure run of individual n folds the next context.
EvaluateSymbol ==
    /\ \E n \in 1..Len(tasks) :
          /\ ~tasks[n].done
          /\ tasks[n].folded < Len(evaluation.symbol_ctxs)
          /\ tasks' = [tasks EXCEPT ![n] =
                 [folded |-> tasks[n].folded + 1,
                  acc |-> fold_step(evaluation, tasks[n].acc, tasks[n].folded,
                                    population[n].chromosome),
                  done |-> FALSE]]
    /\ UNCHANGED <<evaluation, population>>
    /\ UNCHANGED <<engine_vars, filter_vars, buffer_vars, time_vars, interval_vars,
                 optimize_vars, backtest_vars, client_vars,
                 dm_vars, chromosome_vars, exchange_vars>>

\* The closure run of individual n stores the result of the fold and leaves
\* the population sorted by it.
AssignFitness_sorting ==
    /\ \E n \in 1..Len(tasks) :
          /\ ~tasks[n].done
          /\ tasks[n].folded = Len(evaluation.symbol_ctxs)
          /\ LET assigned == [population EXCEPT ![n].fitness = F64(tasks[n].acc)]
             IN  population' =
                     IF Len(assigned) = 2 /\ f64_gt(assigned[2].fitness, assigned[1].fitness)
                     THEN <<assigned[2], assigned[1]>>
                     ELSE assigned
          /\ tasks' = [tasks EXCEPT ![n].done = TRUE]
    /\ UNCHANGED evaluation
    /\ UNCHANGED <<engine_vars, filter_vars, buffer_vars, time_vars, interval_vars,
                 optimize_vars, backtest_vars, client_vars,
                 dm_vars, chromosome_vars, exchange_vars>>

\* The closure run of individual n stores the result of the fold.
AssignFitness ==
    /\ \E n \in 1..Len(tasks) :
          /\ ~tasks[n].done
          /\ tasks[n].folded = Len(evaluation.symbol_ctxs)
          /\ population' = [population EXCEPT ![n].fitness = F64(tasks[n].acc)]
          /\ tasks' = [tasks EXCEPT ![n].done = TRUE]
    /\ UNCHANGED evaluation
    /\ UNCHANGED <<engine_vars, filter_vars, buffer_vars, time_vars, interval_vars,
                 optimize_vars, backtest_vars, client_vars,
                 dm_vars, chromosome_vars, exchange_vars>>

EvaluationNext == EvaluateSymbol \/ AssignFitness

EvaluationSpec == EvaluationInit /\ [][EvaluationNext]_vars

\* The aggregation folded from 0 over the statistics of the first k contexts
\* in the order of symbol_ctxs
RECURSIVE FoldInOrder(_, _)
FoldInOrder(chromosome, k) ==
    IF k = 0 THEN 0
    ELSE evaluation_aggregation_fn(evaluation, FoldInOrder(chromosome, k - 1),
             evaluation.symbol_ctxs[k].statistic[chromosome])

\* C25: the result of evaluate does not depend on how the workers are
\* scheduled: the fitness of an individual is not written before its own
\* closure run ends, and from then on it is the fold of the aggregation
\* function, from 0, over the statistics of the symbols in the order of
\* symbol_ctxs.
C25_ScheduleIndependent ==
    \A n \in 1..Len(population) :
        IF tasks[n].done
        THEN population[n].fitness =
                 F64(FoldInOrder(population[n].chromosome, Len(evaluation.symbol_ctxs)))
        ELSE population[n].fitness = NaN

\* Two individuals are done, over three symbols whose sum depends on the
\* order: (10.0 + 0.4) + 0.4 is 10.0, (0.4 + 0.4) + 10.0 is 11.0.
C25_Witness ==
    /\ Len(population) = 2
    /\ tasks[1].done /\ tasks[2].done
    /\ evaluation.evaluation_aggregation = "Linear"
    /\ Len(evaluation.symbol_ctxs) = 3
    /\ evaluation.symbol_ctxs[1].statistic[1] = 100
    /\ evaluation.symbol_ctxs[2].statistic[1] = 4
    /\ evaluation.symbol_ctxs[3].statistic[1] = 4
    /\ population[1].chromosome = 1
    /\ population[1].fitness = F64(100)

\* The closure run of individual n ends in this step.
Ends(n) == ~tasks[n].done /\ tasks'[n].done

\* C30: evaluate assigns the fitness of every individual exactly once, when
\* the closure run of that individual ends, and changes nothing else: the
\* chromosomes, the order and the size of the population and the tables of
\* the evaluator are the same after every step.
C30_EvaluateFrame ==
    [][/\ evaluation' = evaluation
       /\ Len(population') = Len(population)
       /\ \A n \in 1..Len(population) :
             /\ population'[n].chromosome = population[n].chromosome
             /\ population'[n].fitness # population[n].fitness <=> Ends(n)
             /\ Ends(n) => population[n].fitness = NaN /\ population'[n].fitness # NaN
             /\ tasks[n].done => tasks'[n].done]_vars

\* Both individuals of a population with two different chromosomes have
\* their fitness, the second one the greater.
C30_Witness ==
    /\ Len(population) = 2
    /\ tasks[1].done /\ tasks[2].done
    /\ population[1].chromosome # population[2].chromosome
    /\ f64_gt(population[2].fitness, population[1].fitness)
    /\ Len(evaluation.symbol_ctxs) = 2

\* LongPosition::profit, ShortPosition::profit
Profit(pos) ==
    IF pos.type = "Long"
    THEN (pos.close_fills.quote - pos.close_fills.fee) - pos.open_fills.quote
    ELSE (pos.open_fills.quote - pos.open_fills.fee + pos.collateral
              - pos.close_fills.quote) - pos.collateral

RECURSIVE SumProfit(_)
SumProfit(positions) ==
    IF positions = <<>> THEN 0
    ELSE Profit(Head(positions)) + SumProfit(Tail(positions))

\* C26: in every engine state with no open position, state.quote equals
\* input.quote plus the sum of profit() over the positions of the summary;
\* in particular in the final state, after the end-of-series cancellation.
C26_CashAccounting ==
    ~IsOpen(state) => state.quote = input.quote + SumProfit(Positions)

\* The run is over with a long and a short position in the ledger, the last
\* one cancelled, and the cash differs from what the run started with.
C26_Witness ==
    /\ pc = "done"
    /\ \E k \in 1..Len(Positions) : Positions[k].type = "Long"
    /\ \E k \in 1..Len(Positions) : Positions[k].type = "Short"
    /\ Last(Positions).close_reason = "Cancelled"
    /\ state.quote # input.quote

\* C27: a position is never opened and closed within the same tick: every
\* position closed with reason Strategy, StopLoss or TakeProfit has
\* close_time > open_time, and a Cancelled position has
\* close_time >= open_time, with equality only when it was opened on the
\* last candle.
C27_NoOpenCloseInOneTick ==
    \A k \in 1..Len(Positions) :
        /\ Positions[k].close_reason # "Cancelled" =>
              Positions[k].close_time > Positions[k].open_time
        /\ Positions[k].close_time >= Positions[k].open_time
        /\ Positions[k].close_time = Positions[k].open_time =>
              /\ Positions[k].close_reason = "Cancelled"
              /\ k = Len(Positions)
              /\ pc = "done"
              /\ Positions[k].open_time = state.last_candle.time + params.trader.interval

\* A position closed by the strategy one interval after it was opened, then
\* a position opened on the last candle and cancelled at its open time.
C27_Witness ==
    /\ pc = "done"
    /\ Len(Positions) >= 2
    /\ Positions[1].close_reason = "Strategy"
    /\ Positions[1].close_time = Positions[1].open_time + params.trader.interval
    /\ Last(Positions).close_reason = "Cancelled"
    /\ Last(Positions).close_time = Last(Positions).open_time

\* C28: while a position is open, the reference close of the Basic stop-loss
\* (close_at_position) is the close of the candle on whose tick the position
\* was opened, and upside_hit / downside_hit compare the close of the latest
\* candle with that reference times (1 - up_threshold) / (1 + down_threshold).
C28_StopLossReference ==
    (IsOpen(state) /\ state.stop_loss.kind = "Basic") =>
        LET entry_close == state.open_position.fills.price
            current_close == state.last_candle.close
        IN  /\ state.stop_loss.close_at_position = entry_close
            /\ StopLoss_upside_hit(state.stop_loss) <=>
                  current_close * RateDen
                      <= entry_close * (RateDen - params.stop_loss.up_threshold)
            /\ StopLoss_downside_hit(state.stop_loss) <=>
                  current_close * RateDen
                      >= entry_close * (RateDen + params.stop_loss.down_threshold)

\* A short position opened on an earlier candle is open while the Basic
\* stop-loss is hit on the upside (which closes long positions only): the
\* latest close is at most half the entry close.
C28_Witness ==
    /\ IsOpen(state)
    /\ state.stop_loss.kind = "Basic"
    /\ state.open_position.type = "Short"
    /\ state.open_position.time < state.last_candle.time + params.trader.interval
    /\ state.last_candle.close < state.open_position.fills.price
    /\ StopLoss_upside_hit(state.stop_loss)

\* C29: the nr stored in every emitted generation of POST /optimize is the
\* number of the generation in the full evolution sequence (its index, from
\* 0, before the generations without improvement are filtered out), not its
\* position among the emitted generations.
C29_OriginalGenerationNumber ==
    \A n \in 1..Len(gen_stats) : gen_stats[n].nr = gen_stats[n].gen - 1


\* ------------------------------------------------- a DM indicator on its own
\* indicators/dm.rs. The f64 fields hold exact values in units of
\* 1/DMScale(period): the highs and lows fed are whole numbers, and each
\* multiplication by per = (period - 1)/period adds one factor period to the
\* denominator.
MaxUpdates == 4

Periods == {1, 2, 3}
Highs == {3, 4, 6}
Lows == {0, 2, 3}

DMScale(period) == period ^ MaxUpdates

\* calc_direction, lines 75-92
calc_direction_up_kept(prev_high, prev_low, high, low) ==
    LET up0 == high - prev_high
        down0 == prev_low - low
        up1 == IF up0 < 0 THEN 0 ELSE up0
        down1 == IF up0 < 0 THEN down0 ELSE IF up0 > down0 THEN 0 ELSE down0
        down2 == IF down1 < 0 THEN 0 ELSE down1
    IN  <<up1, down2>>

calc_direction(prev_high, prev_low, high, low) ==
    LET up0 == high - prev_high
        down0 == prev_low - low
        up1 == IF up0 < 0 THEN 0 ELSE up0
        down1 == IF up0 < 0 THEN down0 ELSE IF up0 > down0 THEN 0 ELSE down0
        down2 == IF down1 < 0 THEN 0 ELSE down1
        up2 == IF down1 < 0 THEN up1 ELSE IF down1 > up1 THEN 0 ELSE up1
    IN  <<up2, down2>>

\* DM::new, lines 18-32
DM_new_from_first(period) ==
    [plus_value |-> 0, minus_value |-> 0, dmup |-> 0, dmdown |-> 0,
     per |-> [num |-> period - 1, den |-> period],
     prev_high |-> 0, prev_low |-> 0,
     t |-> 0, t1 |-> 1, t2 |-> period, t3 |-> period + 1]

DM_new(period) ==
    [plus_value |-> 0, minus_value |-> 0, dmup |-> 0, dmdown |-> 0,
     per |-> [num |-> period - 1, den |-> period],
     prev_high |-> 0, prev_low |-> 0,
     t |-> 0, t1 |-> 2, t2 |-> period, t3 |-> period + 1]

\* DM::maturity, lines 34-36
DM_maturity(self) == self.t2

\* DM::mature, lines 38-40
DM_mature(self) == self.t >= self.t2

\* Whether update calls calc_direction once the counter is t: lines 53, 62.
DM_accumulates(self, t) == t >= self.t1 /\ t < self.t3
DM_smooths(self, t) == t # self.t2 /\ t >= self.t3

\* DM::update, lines 50-72
DM_update(self, high, low) ==
    LET t == Min(self.t + 1, self.t3)
        dir == calc_direction(self.prev_high, self.prev_low, high, low)
        dmup1 == IF DM_accumulates(self, t) THEN self.dmup + dir[1] ELSE self.dmup
        dmdown1 == IF DM_accumulates(self, t) THEN self.dmdown + dir[2]
                   ELSE self.dmdown
        dmup2 == IF DM_smooths(self, t)
                 THEN (dmup1 * self.per.num) \div self.per.den + dir[1]
                 ELSE dmup1
        dmdown2 == IF DM_smooths(self, t)
                   THEN (dmdown1 * self.per.num) \div self.per.den + dir[2]
                   ELSE dmdown1
        emits == t = self.t2 \/ DM_smooths(self, t)
    IN  [self EXCEPT !.t = t,
                     !.dmup = dmup2,
                     !.dmdown = dmdown2,
                     !.plus_value = IF emits THEN dmup2 ELSE self.plus_value,
                     !.minus_value = IF emits THEN dmdown2 ELSE self.minus_value,
                     !.prev_high = high,
                     !.prev_low = low]

\* A DM of some period (period 0 fails in `period - 1`), not yet updated.
DMInit ==
    /\ Engine_Idle
    /\ Filter_Idle
    /\ Buffer_Idle
    /\ Time_Idle
    /\ Interval_Idle
    /\ Optimize_Idle
    /\ Backtest_Idle
    /\ Client_Idle
    /\ Evaluation_Idle
    /\ Chromosome_Idle
    /\ Exchange_Idle
    /\ \E period \in Periods : dm = DM_new(period)
    /\ dm_fed = <<>>
    /\ dm_dir = None

\* dm.update(high, low) with the high and the low of the next candle.
Update ==
    /\ dm # None
    /\ Len(dm_fed) < MaxUpdates
    /\ \E h \in Highs, l \in Lows :
          LET high == h * DMScale(dm.t2)
              low == l * DMScale(dm.t2)
              t == Min(dm.t + 1, dm.t3)
          IN  /\ l <= h
              /\ dm' = DM_update(dm, high, low)
              /\ dm_fed' = Append(dm_fed, [high |-> h, low |-> l])
              /\ dm_dir' = IF DM_accumulates(dm, t) \/ DM_smooths(dm, t)
                           THEN Some([prev_high |-> dm.prev_high,
                                      prev_low |-> dm.prev_low,
                                      high |-> high, low |-> low,
                                      ret |-> calc_direction(dm.prev_high,
                                                  dm.prev_low, high, low)])
                           ELSE dm_dir
    /\ UNCHANGED <<engine_vars, filter_vars, buffer_vars, time_vars, interval_vars,
                 optimize_vars, backtest_vars, client_vars, evaluation_vars,
                 chromosome_vars, exchange_vars>>

DMNext == Update

DMSpec == DMInit /\ [][DMNext]_vars

\* The raw (+DM, -DM) of update k of the pairs fed, k >= 2, by the formula of
\* the specification.
RawDM(k) ==
    LET up == Max(dm_fed[k].high - dm_fed[k - 1].high, 0)
        down == Max(dm_fed[k - 1].low - dm_fed[k].low, 0)
    IN  IF up > down THEN <<up, 0>>
        ELSE IF down > up THEN <<0, down>>
        ELSE <<up, down>>

RECURSIVE SumRawDM(_, _)
SumRawDM(k, side) ==
    IF k < 2 THEN 0 ELSE SumRawDM(k - 1, side) + RawDM(k)[side]

\* C31: a DM of period P >= 2 has t <= t3 = P + 1; it is mature exactly from
\* the P-th update on; plus_value and minus_value are 0 before the P-th update
\* and at the P-th update are the sums of the raw +DM and -DM of the updates
\* 2..P.
C31_DMWarmup ==
    (dm # None /\ dm.t2 >= 2) =>
        /\ dm.t <= dm.t3
        /\ dm.t3 = dm.t2 + 1
        /\ DM_maturity(dm) = dm.t2
        /\ DM_mature(dm) <=> Len(dm_fed) >= dm.t2
        /\ Len(dm_fed) < dm.t2 => dm.plus_value = 0 /\ dm.minus_value = 0
        /\ Len(dm_fed) = dm.t2 =>
              /\ dm.plus_value = SumRawDM(dm.t2, 1) * DMScale(dm.t2)
              /\ dm.minus_value = SumRawDM(dm.t2, 2) * DMScale(dm.t2)

\* A DM of period 3 right after its third update, with both sums positive.
C31_Witness ==
    /\ dm # None
    /\ dm.t2 = 3
    /\ Len(dm_fed) = 3
    /\ dm.plus_value > 0
    /\ dm.minus_value > 0

\* C32: calc_direction returns the difference of the highs and the difference
\* of the lows, negatives replaced by 0 and the smaller of the two replaced by
\* 0; neither result is negative.
C32_CalcDirection ==
    dm_dir # None =>
        LET c == dm_dir.v
            up == Max(c.high - c.prev_high, 0)
            down == Max(c.prev_low - c.low, 0)
        IN  /\ c.ret = IF up > down THEN <<up, 0>>
                       ELSE IF down > up THEN <<0, down>>
                       ELSE <<up, down>>
            /\ c.ret[1] >= 0
            /\ c.ret[2] >= 0

\* A call where both differences are positive and the low fell by more than the
\* high rose.
C32_Witness ==
    /\ dm_dir # None
    /\ dm_dir.v.high - dm_dir.v.prev_high > 0
    /\ dm_dir.v.prev_low - dm_dir.v.low > dm_dir.v.high - dm_dir.v.prev_high
    /\ dm_dir.v.ret[1] = 0
    /\ dm_dir.v.ret[2] > 0


\* ------------------------------------- TraderParams as a chromosome on its own
\* trading/mod.rs, impl Chromosome for TraderParams.
MaxCtxIntervals == 2     \* most intervals of a TraderParamsContext

CtxIntervals == {1, 5, 15}
Genes == {0, 1}

\* TraderParams::len, lines 44-46
TraderParams_len == 1

\* The outcomes of `match ctx.intervals.len() { .. }`, lines 50-54 and 67-71:
\* a panic, the only interval, or any one of them as the generator picks.
match_intervals_len(ctx) ==
    IF Len(ctx.intervals) = 0 THEN {[panic |-> TRUE, v |-> 0]}
    ELSE IF Len(ctx.intervals) = 1 THEN {[panic |-> FALSE, v |-> ctx.intervals[1]]}
    ELSE {[panic |-> FALSE, v |-> ctx.intervals[k]] : k \in 1..Len(ctx.intervals)}

\* TraderParams::generate, lines 48-56
TraderParams_generate(ctx) ==
    {[panic |-> o.panic, v |-> [interval |-> o.v]] : o \in match_intervals_len(ctx)}

\* TraderParams::cross, lines 58-63
TraderParams_cross_copy(self, other, gene) ==
    IF gene = 0
    THEN [panic |-> FALSE,
          self |-> [self EXCEPT !.interval = other.interval],
          other |-> other]
    ELSE [panic |-> TRUE, self |-> self, other |-> other]

TraderParams_cross(self, other, gene) ==
    IF gene = 0
    THEN [panic |-> FALSE,
          self |-> [self EXCEPT !.interval = other.interval],
          other |-> [other EXCEPT !.interval = self.interval]]
    ELSE [panic |-> TRUE, self |-> self, other |-> other]

\* TraderParams::mutate, lines 65-76
TraderParams_mutate(self, gene, ctx) ==
    IF gene = 0
    THEN {[panic |-> o.panic,
           self |-> IF o.panic THEN self ELSE [self EXCEPT !.interval = o.v]] :
             o \in match_intervals_len(ctx)}
    ELSE {[panic |-> TRUE, self |-> self]}

NoChromosomeCall == [op |-> "None", gene |-> 0, panic |-> FALSE]

\* A context, and either no chromosomes yet or two that were made elsewhere
\* (TraderParams is Deserialize).
ChromosomeInit ==
    /\ Engine_Idle
    /\ Filter_Idle
    /\ Buffer_Idle
    /\ Time_Idle
    /\ Interval_Idle
    /\ Optimize_Idle
    /\ Backtest_Idle
    /\ Client_Idle
    /\ Evaluation_Idle
    /\ DM_Idle
    /\ Exchange_Idle
    /\ \E len \in 0..MaxCtxIntervals :
          trader_ctx \in [intervals : [1..len -> CtxIntervals]]
    /\ trader_params \in {None} \cup
          {Some(<<a, b>>) : a, b \in [interval : CtxIntervals]}
    /\ chromosome_call = NoChromosomeCall

\* Two calls of TraderParams::generate(rng, ctx).
Generate ==
    /\ ~chromosome_call.panic
    /\ trader_params = None
    /\ \E a, b \in TraderParams_generate(trader_ctx) :
          /\ chromosome_call' = [op |-> "generate", gene |-> 0,
                                 panic |-> a.panic \/ b.panic]
          /\ trader_params' = IF a.panic \/ b.panic THEN None ELSE Some(<<a.v, b.v>>)
    /\ UNCHANGED trader_ctx
    /\ UNCHANGED <<engine_vars, filter_vars, buffer_vars, time_vars, interval_vars,
                 optimize_vars, backtest_vars, client_vars, evaluation_vars,
                 dm_vars, exchange_vars>>

\* self.cross(other, gene), and the same call once more on the result.
Cross ==
    /\ ~chromosome_call.panic
    /\ trader_params # None
    /\ \E gene \in Genes :
          LET once == TraderParams_cross(trader_params.v[1], trader_params.v[2], gene)
              twice == TraderParams_cross(once.self, once.other, gene)
          IN  /\ chromosome_call' = [op |-> "cross", gene |-> gene,
                                     panic |-> once.panic,
                                     before |-> trader_params.v,
                                     twice |-> <<twice.self, twice.other>>]
              /\ trader_params' = Some(<<once.self, once.other>>)
    /\ UNCHANGED trader_ctx
    /\ UNCHANGED <<engine_vars, filter_vars, buffer_vars, time_vars, interval_vars,
                 optimize_vars, backtest_vars, client_vars, evaluation_vars,
                 dm_vars, exchange_vars>>

\* self.mutate(rng, gene, ctx)
Mutate ==
    /\ ~chromosome_call.panic
    /\ trader_params # None
    /\ \E gene \in Genes : \E o \in TraderParams_mutate(trader_params.v[1], gene, trader_ctx) :
          /\ chromosome_call' = [op |-> "mutate", gene |-> gene, panic |-> o.panic,
                                 before |-> trader_params.v]
          /\ trader_params' = Some(<<o.self, trader_params.v[2]>>)
    /\ UNCHANGED trader_ctx
    /\ UNCHANGED <<engine_vars, filter_vars, buffer_vars, time_vars, interval_vars,
                 optimize_vars, backtest_vars, client_vars, evaluation_vars,
                 dm_vars, exchange_vars>>

ChromosomeNext == Generate \/ Cross \/ Mutate

ChromosomeSpec == ChromosomeInit /\ [][ChromosomeNext]_vars

\* The interval is one of ctx.intervals, the only one if there is just one.
FromContext(interval) ==
    /\ \E k \in 1..Len(trader_ctx.intervals) : trader_ctx.intervals[k] = interval
    /\ Len(trader_ctx.intervals) = 1 => interval = trader_ctx.intervals[1]

\* C39: TraderParams has one gene. generate and mutate of gene 0 panic with an
\* empty ctx.intervals and otherwise yield one of its elements, the only one
\* if there is just one; cross of gene 0 swaps the intervals of the two
\* chromosomes and a second cross restores them; cross and mutate of another
\* gene panic.
C39_OneGene ==
    /\ TraderParams_len = 1
    /\ chromosome_call.op = "generate" =>
          /\ chromosome_call.panic <=> Len(trader_ctx.intervals) = 0
          /\ ~chromosome_call.panic =>
                FromContext(trader_params.v[1].interval)
                    /\ FromContext(trader_params.v[2].interval)
    /\ chromosome_call.op = "mutate" =>
          /\ chromosome_call.panic
                <=> (chromosome_call.gene # 0 \/ Len(trader_ctx.intervals) = 0)
          /\ ~chromosome_call.panic => FromContext(trader_params.v[1].interval)
          /\ trader_params.v[2] = chromosome_call.before[2]
    /\ chromosome_call.op = "cross" =>
          /\ chromosome_call.panic <=> chromosome_call.gene # 0
          /\ ~chromosome_call.panic =>
                /\ trader_params.v[1].interval = chromosome_call.before[2].interval
                /\ trader_params.v[2].interval = chromosome_call.before[1].interval
                /\ chromosome_call.twice = chromosome_call.before

\* Two chromosomes with different intervals of the context were crossed.
C39_Witness ==
    /\ chromosome_call.op = "cross"
    /\ ~chromosome_call.panic
    /\ Len(trader_ctx.intervals) = 2
    /\ FromContext(trader_params.v[1].interval)
    /\ FromContext(trader_params.v[2].interval)
    /\ trader_params.v[1].interval # trader_params.v[2].interval


\* ------------------------------- gather_exchange_info_candles_prices on its own
\* juno_axum/src/exchange.rs. A list of candles is known by the request it
\* answers; a HashMap is a function on its keys.
MaxKeys == 2             \* most symbols and most intervals of a request
MaxValues == 4           \* most candle lists handed to map_of_maps

GatherSymbols == {"eth-btc", "ltc-btc"}
GatherIntervals == {1, 5}
CandleLists == [symbol : GatherSymbols, interval : GatherIntervals]

\* HashMap::with_capacity and HashMap::insert
HashMap_new == [k \in {} |-> 0]
HashMap_insert(map, key, value) ==
    [k \in DOMAIN map \cup {key} |-> IF k = key THEN value ELSE map[k]]

\* lines 21-32: the requests in the order flat_map and map make them, which is
\* the order try_join_all returns their results in.
RECURSIVE candle_tasks(_, _)
candle_tasks(symbols, intervals) ==
    IF symbols = <<>> THEN <<>>
    ELSE [k \in 1..Len(intervals) |->
             [symbol |-> Head(symbols), interval |-> intervals[k]]]
         \o candle_tasks(Tail(symbols), intervals)

Panic == [state |-> "Panic"]

\* map_of_maps, lines 70-82: one turn of the loop, idx counted from 0
map_of_maps_insert_interval_major(keys1, keys2, key1_key2_values, idx, values) ==
    IF Len(keys1) = 0 THEN Panic
    ELSE IF idx \div Len(keys1) >= Len(keys2) THEN Panic
    ELSE LET key1 == keys1[(idx % Len(keys1)) + 1]
             key2 == keys2[(idx \div Len(keys1)) + 1]
         IN  IF key1 \in DOMAIN key1_key2_values
             THEN Ok([key1_key2_values EXCEPT
                         ![key1] = HashMap_insert(@, key2, values)])
             ELSE Ok(HashMap_insert(key1_key2_values, key1,
                                    HashMap_insert(HashMap_new, key2, values)))

map_of_maps_insert(keys1, keys2, key1_key2_values, idx, values) ==
    IF Len(keys2) = 0 THEN Panic                       \* division by zero
    ELSE IF idx \div Len(keys2) >= Len(keys1) THEN Panic \* index out of bounds
    ELSE LET key1 == keys1[(idx \div Len(keys2)) + 1]
             key2 == keys2[(idx % Len(keys2)) + 1]
         IN  IF key1 \in DOMAIN key1_key2_values
             THEN Ok([key1_key2_values EXCEPT
                         ![key1] = HashMap_insert(@, key2, values)])
             ELSE Ok(HashMap_insert(key1_key2_values, key1,
                                    HashMap_insert(HashMap_new, key2, values)))

\* map_of_maps, lines 67-85: the loop from turn idx on
RECURSIVE map_of_maps_from(_, _, _, _, _)
map_of_maps_from(keys1, keys2, values, idx, key1_key2_values) ==
    IF idx = Len(values) THEN Ok(key1_key2_values)
    ELSE LET r == map_of_maps_insert(keys1, keys2, key1_key2_values, idx, values[idx + 1])
         IN  IF r = Panic THEN Panic
             ELSE map_of_maps_from(keys1, keys2, values, idx + 1, r.v)

\* map_of_maps, lines 58-86
map_of_maps(keys1, keys2, values) ==
    map_of_maps_from(keys1, keys2, values, 0, HashMap_new)

\* Symbols and intervals; the candle lists are still to be requested, or are
\* any lists a caller of map_of_maps may hand over.
ExchangeInit ==
    /\ Engine_Idle
    /\ Filter_Idle
    /\ Buffer_Idle
    /\ Time_Idle
    /\ Interval_Idle
    /\ Optimize_Idle
    /\ Backtest_Idle
    /\ Client_Idle
    /\ Evaluation_Idle
    /\ DM_Idle
    /\ Chromosome_Idle
    /\ \E ns, ni \in 0..MaxKeys :
          gather_keys \in [symbols : [1..ns -> GatherSymbols],
                           intervals : [1..ni -> GatherIntervals]]
    /\ \/ gather_values = None
       \/ \E len \in 0..MaxValues :
             \E values \in [1..len -> CandleLists] : gather_values = Some(values)
    /\ gathered = None

\* lines 21-49: the requests are answered, or one of them fails and `?`
\* returns the error.
ListCandles ==
    /\ gather_values = None
    /\ gathered = None
    /\ \/ /\ gather_values' = Some(candle_tasks(gather_keys.symbols,
                                               gather_keys.intervals))
          /\ UNCHANGED gathered
       \/ /\ gathered' = Err("request failed")
          /\ UNCHANGED gather_values
    /\ UNCHANGED gather_keys
    /\ UNCHANGED <<engine_vars, filter_vars, buffer_vars, time_vars, interval_vars,
                 optimize_vars, backtest_vars, client_vars, evaluation_vars,
                 dm_vars, chromosome_vars>>

\* lines 51-55: map_of_maps(symbols, intervals, candles)
MapOfMaps ==
    /\ gather_values # None
    /\ gathered = None
    /\ gathered' = map_of_maps(gather_keys.symbols, gather_keys.intervals,
                               gather_values.v)
    /\ UNCHANGED <<gather_keys, gather_values>>
    /\ UNCHANGED <<engine_vars, filter_vars, buffer_vars, time_vars, interval_vars,
                 optimize_vars, backtest_vars, client_vars, evaluation_vars,
                 dm_vars, chromosome_vars>>

ExchangeNext == ListCandles \/ MapOfMaps

ExchangeSpec == ExchangeInit /\ [][ExchangeNext]_vars

Distinct(keys) == \A j, k \in 1..Len(keys) : keys[j] = keys[k] => j = k

\* keys1 and keys2 are distinct and there is one value for each pair.
MapOfMapsInput ==
    /\ gather_values # None
    /\ Distinct(gather_keys.symbols)
    /\ Distinct(gather_keys.intervals)
    /\ Len(gather_values.v) = Len(gather_keys.symbols) * Len(gather_keys.intervals)

\* C40: for distinct keys and len(keys1) * len(keys2) values, map_of_maps
\* returns a map that holds values[a * len(keys2) + b] (counted from 0) under
\* keys1[a] and keys2[b]; for the candle lists as requested, that is the list
\* of that symbol and that interval.
C40_MapOfMaps ==
    (gathered # None /\ MapOfMapsInput) =>
        /\ gathered.state = "Ok"
        /\ \A a \in 1..Len(gather_keys.symbols), b \in 1..Len(gather_keys.intervals) :
              LET key1 == gather_keys.symbols[a]
                  key2 == gather_keys.intervals[b]
                  value == gather_values.v[(a - 1) * Len(gather_keys.intervals) + b]
              IN  /\ key1 \in DOMAIN gathered.v
                  /\ key2 \in DOMAIN gathered.v[key1]
                  /\ gathered.v[key1][key2] = value
                  /\ gather_values.v = candle_tasks(gather_keys.symbols,
                                                    gather_keys.intervals)
                        => value = [symbol |-> key1, interval |-> key2]

\* The candle lists of two symbols and two intervals were requested and mapped.
C40_Witness ==
    /\ gathered # None
    /\ MapOfMapsInput
    /\ Len(gather_keys.symbols) = 2
    /\ Len(gather_keys.intervals) = 2
    /\ gather_values.v = candle_tasks(gather_keys.symbols, gather_keys.intervals)
    /\ gathered.state = "Ok"
    /\ gathered.v["ltc-btc"][5] = [symbol |-> "ltc-btc", interval |-> 5]

====
